---- MODULE Spec2Model ----
(***************************************************************************)
(* Transport and session-routing layer of the Unity MCP server:            *)
(*   PluginRegistry            src/Server/src/transport/plugin_registry.py *)
(*   PluginHub                 src/Server/src/transport/plugin_hub.py      *)
(*   UnityInstanceMiddleware   .../transport/unity_instance_middleware.py  *)
(*                                                                         *)
(* Strings that the code takes apart ("Name@hash") are sequences of        *)
(* tokens; "@" is a token of its own.  Session ids and command ids are     *)
(* uuid4 values: fresh positive integers, 0 standing for Python's None.    *)
(* The hub and the registry run on one asyncio loop, so a step of the      *)
(* model is the code between two suspension points (socket I/O, sleep,     *)
(* waiting for a future); the asyncio locks are never contended there.     *)
(***************************************************************************)
EXTENDS Integers, Sequences, FiniteSets, TLC

\* ------------------------------------------------------------------ bounds
MaxRegSid == 4
MaxSid == 2
MaxRetriesCfg == 3     \* largest reload_max_retries a configuration sets
MaxLateTicks == 1      \* how late the loop may resume an asyncio.sleep
MaxToolCalls == 3      \* tool calls made through the middleware
MaxWall == 17          \* the last second of time.time() that is followed
MaxUtc == 2            \* heartbeats the registry is followed through
MaxLockTasks == 2      \* tasks that take locks at the same time

\* ---------------------------------------------------- program constants
MinSleepMs == 50       \* max(0.05, ...) in _resolve_session_id
reload_retry_ms_default == 250
reload_max_retries_default == 40
port_registry_ttl_default == 5
WallStart == 10        \* time.time() when the server starts, in seconds

\* ------------------------------------------------------------- value sets
NoSid == 0
None == <<"<none>">>
At == "@"
Hashes == {<<"abcd1234">>, <<"efgh5678">>}
Names == {<<"Proj">>}
Sids == 1..MaxSid
NoWs == 0
WebSockets == 1..2      \* numbered in the order the plugins connect
Tasks == 1..2           \* numbered in the order the callers call
Calls == 1..2           \* the _resolve_session_id calls
CmdIds == 1..Cardinality(Tasks)

Truthy(s) == s /= None /\ s /= <<>>

MapPut(f, k, v) == [x \in (DOMAIN f) \cup {k} |-> IF x = k THEN v ELSE f[x]]
MapDel(f, k) == [x \in (DOMAIN f) \ {k} |-> f[x]]
MapGet(f, k, d) == IF k \in DOMAIN f THEN f[k] ELSE d
EmptyMap == [x \in {} |-> 0]

SetMax(S) == CHOOSE x \in S : \A y \in S : y <= x

VARIABLES
    sessions,          \* PluginRegistry._sessions: session id -> PluginSession
    hash_to_session,   \* PluginRegistry._hash_to_session: project hash -> session id
    nextSid,           \* next value uuid4 hands out for a session id
    regLog,            \* history: the register calls made so far, in order
    unregistered,      \* history: the session ids unregister was called with
                       \* (both kept for the registry on its own only)
    ws,                \* each WebSocket: "new", "open", "closed" (peer or server
                       \* closed it, on_disconnect not yet run) or "gone"
    handler,           \* the on_receive call in progress on each WebSocket
    connections,       \* PluginHub._connections: session id -> WebSocket
    pending,           \* PluginHub._pending: the command ids that have an entry
    future,            \* the asyncio.Future created for each command id
    nextCmd,           \* next value uuid4 hands out for a command id
    task,              \* the send_command calls
    sent,              \* the execute frames the hub wrote to the WebSockets
    handshake,         \* history, per WebSocket: the project hash of the last
                       \* register frame received, and the code the hub
                       \* closed the WebSocket with
    dropped,           \* history: the last command_result frame that came
                       \* when no waiter could take it: its id and the
                       \* state of the future of that id at that moment
    sync,              \* the _run_coroutine_sync calls
    submitted,         \* the calls whose coroutine was handed to the hub's
                       \* loop (run_coroutine_threadsafe) and has not ended
    loop_running,      \* PluginHub._loop.is_running()
    loop_blocked,      \* the thread of the hub's loop sits in future.result()
    instances,         \* StdioPortRegistry._instances: the ids it caches
    last_refresh,      \* StdioPortRegistry._last_refresh, in seconds
    wall,              \* time.time(), in seconds
    discoverable,      \* what PortDiscovery.discover_all_unity_instances()
                       \* finds at this moment
    last_get,          \* history: the last get_instances call
    received,          \* history: the last command_result frame received:
                       \* the WebSocket it came on and the id it carries
    last_op,           \* history: the last set_active_instance or
                       \* clear_active_instance call made on the middleware
    objects,           \* the mutable fields (connected_at, tools) of every
                       \* PluginSession object created, by session id
    utc,               \* datetime.now(timezone.utc), as a tick count
    held,              \* what a caller got from its last registry lookup:
                       \* references to PluginSession objects, and
                       \* (history) what these objects held at that moment
    lock_owner,        \* who holds the middleware's RLock, PluginHub._lock
                       \* and PluginRegistry._lock
    proc,              \* the tasks that take these locks: the operation each
                       \* one runs and how far it has come
    config,            \* core.config.config: reload_max_retries, reload_retry_ms
    now,               \* time.monotonic(), in milliseconds
    res,               \* the _resolve_session_id calls
    hub_configured,    \* PluginHub.is_configured()
    active_by_key,     \* UnityInstanceMiddleware._active_by_key
    call,              \* the tool calls going through on_call_tool
    ncalls             \* history: tool calls made so far

regVars == <<sessions, hash_to_session, nextSid, regLog, unregistered>>
obsVars == <<handshake, dropped>>
bridgeVars == <<sync, submitted, loop_running, loop_blocked>>
legacyVars == <<instances, last_refresh, wall, discoverable, last_get>>
snapVars == <<objects, utc, held>>
lockVars == <<lock_owner, proc>>
sideVars == <<legacyVars, received, last_op, snapVars, lockVars>>
hubVars == <<ws, handler, connections, pending, future, nextCmd, task, sent, obsVars,
            bridgeVars, sideVars>>
resVars == <<config, now, res>>
mwVars == <<hub_configured, active_by_key, call, ncalls>>
vars == <<sessions, hash_to_session, nextSid, regLog, unregistered,
          ws, handler, connections, pending, future, nextCmd, task, sent,
          handshake, dropped, sync, submitted, loop_running, loop_blocked,
          instances, last_refresh, wall, discoverable, last_get, received, last_op,
          objects, utc, held, lock_owner, proc, config, now, res, hub_configured, active_by_key, call, ncalls>>

\* ------------------------------------------------------- PluginRegistry
PluginSession(sid, name, hash) ==
    [session_id |-> sid, project_name |-> name, project_hash |-> hash]

\* register(): the session map after the call
RegisterSessionsKeepPrevious(ss, h2s, sid, name, hash) ==
    MapPut(ss, sid, PluginSession(sid, name, hash))

RegisterSessions(ss, h2s, sid, name, hash) ==
    LET previous_session_id == MapGet(h2s, hash, NoSid)
        popped == IF previous_session_id /= NoSid /\ previous_session_id /= sid
                  THEN MapDel(ss, previous_session_id)
                  ELSE ss
    IN MapPut(popped, sid, PluginSession(sid, name, hash))

\* register(): the hash index after the call
RegisterHashKeepFirst(h2s, sid, hash) ==
    IF hash \in DOMAIN h2s THEN h2s ELSE MapPut(h2s, hash, sid)

RegisterHash(h2s, sid, hash) == MapPut(h2s, hash, sid)

\* unregister(): the session map after the call
UnregisterSessions(ss, sid) == MapDel(ss, sid)

\* unregister(): the hash index after the call
UnregisterHashKeepsMapping(ss, h2s, sid) == h2s

UnregisterHash(ss, h2s, sid) ==
    IF sid \in DOMAIN ss /\ ss[sid].project_hash \in DOMAIN h2s
    THEN IF h2s[ss[sid].project_hash] = sid
         THEN MapDel(h2s, ss[sid].project_hash)
         ELSE h2s
    ELSE h2s

get_session_id_by_hash(h) == MapGet(hash_to_session, h, NoSid)

list_sessions == sessions

registerHashIfAbsent(sid, name, hash) ==
    /\ sessions' = RegisterSessions(sessions, hash_to_session, sid, name, hash)
    /\ hash_to_session' = IF hash \in DOMAIN hash_to_session THEN hash_to_session
                          ELSE MapPut(hash_to_session, hash, sid)

register(sid, name, hash) ==
    /\ sessions' = RegisterSessions(sessions, hash_to_session, sid, name, hash)
    /\ hash_to_session' = RegisterHash(hash_to_session, sid, hash)

unregister(sid) ==
    /\ sessions' = UnregisterSessions(sessions, sid)
    /\ hash_to_session' = UnregisterHash(sessions, hash_to_session, sid)

RegInit ==
    /\ sessions = EmptyMap
    /\ hash_to_session = EmptyMap
    /\ nextSid = 1
    /\ regLog = <<>>
    /\ unregistered = {}

IdleHandler == [pc |-> "idle", session_id |-> NoSid, project_name |-> None,
                project_hash |-> None]

\* The "result" of a command_result frame: the plugin answers the execute
\* frame of command c with the result of running c.
NoResult == [answers |-> 0]
ResultPayload(c) == [answers |-> c]

\* An asyncio.Future: not created, pending, cancelled, or done with a result.
NoFuture == [st |-> "none", result |-> NoResult]
PendingFuture == [st |-> "pending", result |-> NoResult]

\* orphaned (history): the WebSocket closed while the call was waiting for a
\* result that had not arrived.
IdleTask == [pc |-> "idle", session_id |-> NoSid, websocket |-> NoWs,
             command_id |-> 0, outcome |-> "-", orphaned |-> FALSE,
             result |-> NoResult]

\* No register frame received, not closed by the hub.
NoCloseCode == 0
NoHandshake == [project_hash |-> <<"-">>, close_code |-> NoCloseCode]

\* The blocking helpers are called from the thread of the hub's loop, from
\* a thread that runs another event loop, or from a thread that runs none.
Threads == {"hub_loop_thread", "other_loop_thread", "plain_thread"}
SyncCalls == 1..2
IdleSync == [pc |-> "idle", thread |-> "-", helper |-> "-", outcome |-> "-"]

NoneDropped == [id |-> 0, st |-> "-"]

NoneReceived == [ws |-> NoWs, id |-> 0]

NothingHeld == [lookup |-> "-", refs |-> {}, seen |-> EmptyMap]

\* UnityInstanceMiddleware._lock, PluginHub._lock, PluginRegistry._lock
Locks == {"middleware", "hub", "registry"}
LockTasks == 1..MaxLockTasks
NoProc == 0
IdleProc == [op |-> "-", pc |-> 1]

NoOp == [op |-> "-", ctx |-> [session_id |-> None, client_id |-> None],
         instance_id |-> None]

\* StdioPortRegistry.__init__; no get_instances call made yet.
NoGet == [called |-> FALSE, force_refresh |-> FALSE, scanned |-> FALSE,
          returned |-> {}, cached |-> {}, age |-> 0]

LegacyInit ==
    /\ instances = {}
    /\ last_refresh = 0
    /\ wall = WallStart
    /\ discoverable = {}
    /\ last_get = NoGet

HubInit ==
    /\ ws = [w \in WebSockets |-> "new"]
    /\ handler = [w \in WebSockets |-> IdleHandler]
    /\ connections = EmptyMap
    /\ pending = {}
    /\ future = [c \in CmdIds |-> NoFuture]
    /\ nextCmd = 1
    /\ task = [t \in Tasks |-> IdleTask]
    /\ sent = {}
    /\ handshake = [w \in WebSockets |-> NoHandshake]
    /\ dropped = NoneDropped
    /\ sync = [k \in SyncCalls |-> IdleSync]
    /\ submitted = {}
    /\ loop_running = FALSE
    /\ loop_blocked = FALSE
    /\ LegacyInit
    /\ received = NoneReceived
    /\ last_op = NoOp
    /\ objects = EmptyMap
    /\ utc = 0
    /\ held = NothingHeld
    /\ lock_owner = [l \in Locks |-> NoProc]
    /\ proc = [p \in LockTasks |-> IdleProc]

\* A _resolve_session_id call.  session_count is dead at every suspension
\* point and is not kept.  started and sleeps are history: the clock at the
\* call, and the asyncio.sleep calls completed (each one is followed by one
\* _try_once, after the one the call starts with).
IdleRes == [pc |-> "idle", unity_instance |-> None, target_hash |-> None,
            session_id |-> NoSid, deadline |-> 0, wake |-> 0,
            error |-> "-", message |-> <<>>, started |-> 0, sleeps |-> 0]

DefaultConfig ==
    [reload_max_retries |-> reload_max_retries_default,
     reload_retry_ms |-> reload_retry_ms_default]

\* The configurations: the default, one that the clamps of
\* _resolve_session_id raise, a short one and a longer one.
Configs ==
    {DefaultConfig,
     [reload_max_retries |-> 0, reload_retry_ms |-> 0],
     [reload_max_retries |-> 2, reload_retry_ms |-> MinSleepMs],
     [reload_max_retries |-> MaxRetriesCfg, reload_retry_ms |-> 2 * MinSleepMs]}

ResInit(configs) ==
    /\ config \in configs
    /\ now = 0
    /\ res = [c \in Calls |-> IdleRes]

\* The request context of a caller: ctx.session_id and ctx.client_id.
Contexts ==
    {[session_id |-> <<"mcp-session-1">>, client_id |-> None],
     [session_id |-> None, client_id |-> None]}

\* A tool call on its way through on_call_tool.  state is the request state
\* (ctx.set_state); invoked counts the call_next calls; mw_error keeps how
\* the middleware's own resolution failed; instance_id is the keyword the
\* tool hands to the transport; dispatched_to the session send_command is
\* called with.
IdleCall == [pc |-> "idle", ctx |-> [session_id |-> None, client_id |-> None],
             tool |-> "-", arg |-> None, active_instance |-> None,
             state |-> [unity_instance |-> None, unity_session_id |-> NoSid],
             invoked |-> 0, mw_error |-> "-", instance_id |-> None,
             dispatched_to |-> NoSid, result |-> "-"]

MwInit(configured) ==
    /\ hub_configured \in configured
    /\ active_by_key = EmptyMap
    /\ call = [c \in Calls |-> IdleCall]
    /\ ncalls = 0

Init == RegInit /\ HubInit /\ ResInit({DefaultConfig}) /\ MwInit({TRUE})

\* ------------------------------------------------- registry on its own
\* Session ids are generated by the caller with uuid4 (plugin_hub.py:205):
\* every register call brings a session id that was never used before.
RegRegister ==
    \E name \in Names, hash \in Hashes :
        /\ nextSid <= MaxRegSid
        /\ register(nextSid, name, hash)
        /\ nextSid' = nextSid + 1
        /\ regLog' = Append(regLog, <<nextSid, hash>>)
        /\ UNCHANGED unregistered

RegUnregister ==
    \E sid \in 1..MaxRegSid :
        /\ unregister(sid)
        /\ unregistered' = IF sid < nextSid THEN unregistered \cup {sid} ELSE unregistered
        /\ UNCHANGED <<nextSid, regLog>>

RegNext == (RegRegister \/ RegUnregister) /\ UNCHANGED <<hubVars, resVars, mwVars>>

SpecReg == Init /\ [][RegNext]_vars

\* ---------------------------------------------------------------- C1
\* Register calls for hash h, as positions in the log.
RegsFor(h) == {i \in 1..Len(regLog) : regLog[i][2] = h}

LastRegistered(h) == regLog[SetMax(RegsFor(h))][1]

\* Sessions registered under h and not yet unregistered.
NotYetUnregistered(h) == {i \in RegsFor(h) : regLog[i][1] \notin unregistered}

\* C1 as stated: get_session_id_by_hash(h) is the most recent session that
\* was registered under h and has not been unregistered, or none.
C1_Original ==
    \A h \in Hashes :
        get_session_id_by_hash(h) =
            IF NotYetUnregistered(h) = {} THEN NoSid
            ELSE regLog[SetMax(NotYetUnregistered(h))][1]

\* C1 (amended): get_session_id_by_hash(h) is the session of the latest
\* register call for h when that session has not been unregistered, and none
\* otherwise: an older session of h that a later register replaced is never
\* returned again, also when it was never unregistered itself.
C1_LatestOrNone ==
    \A h \in Hashes :
        get_session_id_by_hash(h) =
            IF RegsFor(h) = {} THEN NoSid
            ELSE IF LastRegistered(h) \in unregistered THEN NoSid
            ELSE LastRegistered(h)

\* Two sessions registered under one hash, the newer one unregistered, the
\* older one not: the lookup gives none.
C1_Witness ==
    \E h \in Hashes :
        /\ Cardinality(RegsFor(h)) >= 2
        /\ LastRegistered(h) \in unregistered
        /\ NotYetUnregistered(h) /= {}
        /\ get_session_id_by_hash(h) = NoSid

\* ------------------------------------------------------------ PluginHub
Frame(w, type, id) == [ws |-> w, type |-> type, id |-> id]

SetMin(S) == CHOOSE x \in S : \A y \in S : x <= y

on_connect(w) ==
    /\ ws[w] = "new"
    /\ \A v \in WebSockets : v < w => ws[v] /= "new"
    /\ ws' = [ws EXCEPT ![w] = "open"]
    /\ UNCHANGED <<regVars, handler, connections, pending, future, nextCmd, task, sent>>

\* The peer goes away; starlette calls on_disconnect once the on_receive
\* call in progress on that WebSocket has returned.
Orphan(w) ==
    [t \in Tasks |->
        IF task[t].pc = "wait" /\ task[t].websocket = w
           /\ future[task[t].command_id].st = "pending"
        THEN [task[t] EXCEPT !.orphaned = TRUE]
        ELSE task[t]]

PeerClose(w) ==
    /\ ws[w] = "open"
    /\ ws' = [ws EXCEPT ![w] = "closed"]
    /\ task' = Orphan(w)
    /\ UNCHANGED <<regVars, handler, connections, pending, future, nextCmd, sent>>

\* on_receive of a register frame, up to "await websocket.send_json(...)".
HandleRegisterBegin(w, name, hash) ==
    /\ ws[w] = "open"
    /\ handler[w].pc = "idle"
    /\ IF ~Truthy(hash)
       THEN /\ ws' = [ws EXCEPT ![w] = "closed"]
            /\ task' = Orphan(w)
            /\ UNCHANGED <<handler, nextSid>>
       ELSE /\ nextSid <= MaxSid
            /\ nextSid' = nextSid + 1
            /\ handler' = [handler EXCEPT ![w] =
                   [pc |-> "registering", session_id |-> nextSid,
                    project_name |-> name, project_hash |-> hash]]
            /\ UNCHANGED <<ws, task>>
    /\ UNCHANGED <<sessions, hash_to_session, regLog, unregistered,
                   connections, pending, future, nextCmd, sent>>

\* _handle_register after the registered frame went out: registry.register,
\* then the channel binding.
HandleRegisterCommitNoBinding(w) ==
    /\ handler[w].pc = "registering"
    /\ register(handler[w].session_id, handler[w].project_name,
                handler[w].project_hash)
    /\ handler' = [handler EXCEPT ![w] = IdleHandler]
    /\ UNCHANGED <<nextSid, regLog, unregistered, ws, connections, pending, future,
                   nextCmd, task, sent>>

HandleRegisterCommit(w) ==
    /\ handler[w].pc = "registering"
    /\ register(handler[w].session_id, handler[w].project_name,
                handler[w].project_hash)
    /\ connections' = MapPut(connections, handler[w].session_id, w)
    /\ handler' = [handler EXCEPT ![w] = IdleHandler]
    /\ UNCHANGED <<nextSid, regLog, unregistered, ws, pending, future, nextCmd, task, sent>>

\* send_json of the registered frame raises on a closed WebSocket; on_receive
\* logs the exception and nothing is registered.
HandleRegisterSendFails(w) ==
    /\ handler[w].pc = "registering"
    /\ ws[w] = "closed"
    /\ handler' = [handler EXCEPT ![w] = IdleHandler]
    /\ UNCHANGED <<regVars, ws, connections, pending, future, nextCmd, task, sent>>

\* next(sid for sid, ws in _connections.items() if ws is websocket): the
\* dict keeps insertion order, and the session ids bound to one WebSocket
\* were inserted in the order they were generated.
BoundTo(w) == {sid \in DOMAIN connections : connections[sid] = w}

on_disconnectKeepsBinding(w) ==
    /\ ws[w] = "closed"
    /\ handler[w].pc = "idle"
    /\ ws' = [ws EXCEPT ![w] = "gone"]
    /\ IF BoundTo(w) /= {}
       THEN /\ unregister(SetMin(BoundTo(w)))
            /\ UNCHANGED connections
       ELSE UNCHANGED <<connections, sessions, hash_to_session>>
    /\ UNCHANGED <<nextSid, regLog, unregistered, handler, pending, future, nextCmd, task, sent>>

on_disconnect(w) ==
    /\ ws[w] = "closed"
    /\ handler[w].pc = "idle"
    /\ ws' = [ws EXCEPT ![w] = "gone"]
    /\ IF BoundTo(w) /= {}
       THEN /\ connections' = MapDel(connections, SetMin(BoundTo(w)))
            /\ unregister(SetMin(BoundTo(w)))
       ELSE UNCHANGED <<connections, sessions, hash_to_session>>
    /\ UNCHANGED <<nextSid, regLog, unregistered, handler, pending, future, nextCmd, task, sent>>

\* _handle_command_result: a frame with this id, received on WebSocket w.
FutureAfterResultNoDoneCheck(c, result) ==
    IF c \in pending
    THEN [future EXCEPT ![c] = [st |-> "result", result |-> result]]
    ELSE future

FutureAfterResultOldestWaiter(c, result) ==
    LET waiting == {d \in pending : future[d].st = "pending"}
    IN IF c \in pending /\ waiting /= {}
       THEN [future EXCEPT ![SetMin(waiting)] = [st |-> "result", result |-> result]]
       ELSE future

FutureAfterResult(c, result) ==
    IF c \in pending /\ future[c].st = "pending"
    THEN [future EXCEPT ![c] = [st |-> "result", result |-> result]]
    ELSE future

HandleCommandResult(w, c) ==
    /\ ws[w] = "open"
    /\ handler[w].pc = "idle"
    /\ future' = FutureAfterResult(c, ResultPayload(c))
    /\ UNCHANGED <<regVars, ws, handler, connections, pending, nextCmd, task, sent>>

\* The "finally" of send_command.
FinallyPopAllOnTimeout(p, c, outcome) == IF outcome = "timeout" THEN {} ELSE p \ {c}

FinallyPopOnSuccessOnly(p, c, outcome) == IF outcome = "result" THEN p \ {c} ELSE p

FinallyPop(p, c, outcome) == p \ {c}

\* _get_connection
GetConnectionFirstBound(session_id) ==
    IF session_id \in DOMAIN connections THEN connections[session_id]
    ELSE IF DOMAIN connections /= {} THEN connections[SetMin(DOMAIN connections)]
    ELSE NoWs

GetConnection(session_id) == MapGet(connections, session_id, NoWs)

\* send_command up to "await websocket.send_json(...)": _get_connection, the
\* new command id and its future, the pending entry.
SendCommandCall(t, session_id) ==
    /\ task[t].pc = "idle"
    /\ \A u \in Tasks : u < t => task[u].pc /= "idle"
    /\ IF GetConnection(session_id) = NoWs
       THEN /\ task' = [task EXCEPT ![t] = [IdleTask EXCEPT !.pc = "done",
                            !.session_id = session_id, !.outcome = "not_connected"]]
            /\ UNCHANGED <<pending, future, nextCmd>>
       ELSE /\ pending' = pending \cup {nextCmd}
            /\ future' = [future EXCEPT ![nextCmd] = PendingFuture]
            /\ nextCmd' = nextCmd + 1
            /\ task' = [task EXCEPT ![t] = [pc |-> "send", session_id |-> session_id,
                            websocket |-> GetConnection(session_id),
                            command_id |-> nextCmd, outcome |-> "-",
                            orphaned |-> FALSE, result |-> NoResult]]
    /\ UNCHANGED <<regVars, ws, handler, connections, sent>>

\* The execute frame goes out and the call starts waiting for the future.
SendExecute(t) ==
    /\ task[t].pc = "send"
    /\ ws[task[t].websocket] = "open"
    /\ sent' = sent \cup {Frame(task[t].websocket, "execute", task[t].command_id)}
    /\ task' = [task EXCEPT ![t].pc = "wait"]
    /\ UNCHANGED <<regVars, ws, handler, connections, pending, future, nextCmd>>

\* send_json raises on a WebSocket that is no longer open: finally, re-raise.
SendExecuteFails(t) ==
    /\ task[t].pc = "send"
    /\ ws[task[t].websocket] /= "open"
    /\ pending' = FinallyPop(pending, task[t].command_id, "send_failed")
    /\ task' = [task EXCEPT ![t].pc = "done", ![t].outcome = "send_failed"]
    /\ UNCHANGED <<regVars, ws, handler, connections, future, nextCmd, sent>>

\* wait_for returns the result the future was given.
ResultReturn(t) ==
    /\ task[t].pc = "wait"
    /\ future[task[t].command_id].st = "result"
    /\ pending' = FinallyPop(pending, task[t].command_id, "result")
    /\ task' = [task EXCEPT ![t].pc = "done", ![t].outcome = "result",
                            ![t].result = future[task[t].command_id].result]
    /\ UNCHANGED <<regVars, ws, handler, connections, future, nextCmd, sent>>

\* COMMAND_TIMEOUT elapses: wait_for cancels the future...
TimerFireWhileOpen(t) ==
    /\ task[t].pc = "wait"
    /\ ws[task[t].websocket] = "open"
    /\ future[task[t].command_id].st = "pending"
    /\ future' = [future EXCEPT ![task[t].command_id].st = "cancelled"]
    /\ task' = [task EXCEPT ![t].pc = "timed_out"]
    /\ UNCHANGED <<regVars, ws, handler, connections, pending, nextCmd, sent>>

TimerFire(t) ==
    /\ task[t].pc = "wait"
    /\ future[task[t].command_id].st = "pending"
    /\ future' = [future EXCEPT ![task[t].command_id].st = "cancelled"]
    /\ task' = [task EXCEPT ![t].pc = "timed_out"]
    /\ UNCHANGED <<regVars, ws, handler, connections, pending, nextCmd, sent>>

\* ... and the call resumes with TimeoutError: finally, re-raise.
TimeoutRaise(t) ==
    /\ task[t].pc = "timed_out"
    /\ pending' = FinallyPop(pending, task[t].command_id, "timeout")
    /\ task' = [task EXCEPT ![t].pc = "done", ![t].outcome = "timeout"]
    /\ UNCHANGED <<regVars, ws, handler, connections, future, nextCmd, sent>>

HubPluginNext ==
    \/ \E w \in WebSockets : on_connect(w)
    \/ \E w \in WebSockets : PeerClose(w)
    \/ \E w \in WebSockets, name \in Names, hash \in Hashes \cup {<<>>} :
           HandleRegisterBegin(w, name, hash)
    \/ \E w \in WebSockets : HandleRegisterCommit(w)
    \/ \E w \in WebSockets : HandleRegisterSendFails(w)
    \/ \E w \in WebSockets : on_disconnect(w)
    \/ \E w \in WebSockets, c \in CmdIds : HandleCommandResult(w, c)

HubCommandNext ==
    \/ \E t \in Tasks, sid \in Sids : SendCommandCall(t, sid)
    \/ \E t \in Tasks : SendExecute(t)
    \/ \E t \in Tasks : SendExecuteFails(t)
    \/ \E t \in Tasks : ResultReturn(t)
    \/ \E t \in Tasks : TimerFire(t)
    \/ \E t \in Tasks : TimeoutRaise(t)

HubNext == (HubPluginNext \/ HubCommandNext) /\ UNCHANGED <<obsVars, bridgeVars, sideVars, resVars, mwVars>>

SpecHub == Init /\ [][HubNext]_vars

\* The event loop runs due timers and resumes tasks that are ready.
HubFairness ==
    \A t \in Tasks :
        /\ WF_vars(TimerFire(t) /\ UNCHANGED <<obsVars, bridgeVars, sideVars, resVars, mwVars>>)
        /\ WF_vars(TimeoutRaise(t) /\ UNCHANGED <<obsVars, bridgeVars, sideVars, resVars, mwVars>>)
        /\ WF_vars(ResultReturn(t) /\ UNCHANGED <<obsVars, bridgeVars, sideVars, resVars, mwVars>>)

FairSpecHub == SpecHub /\ HubFairness

HubTypeOK ==
    /\ DOMAIN connections \subseteq Sids
    /\ pending \subseteq CmdIds
    /\ \A t \in Tasks : task[t].pc \in {"idle", "send", "wait", "timed_out", "done"}

\* ---------------------------------------------------------------- C2
\* C2: once a send_command call has returned or raised, _pending holds no
\* entry for the command id it generated.
C2_PendingEntryRemoved ==
    \A t \in Tasks :
        (task[t].pc = "done" /\ task[t].command_id /= 0)
            => task[t].command_id \notin pending

\* One call ended by the timeout, another by a failing send.
C2_Witness ==
    \E t, u \in Tasks :
        /\ task[t].pc = "done" /\ task[t].outcome = "timeout"
        /\ task[u].pc = "done" /\ task[u].outcome = "send_failed"
        /\ pending = {}

\* ---------------------------------------------------------------- C3
\* C3: a send_command call for a session id that has no entry in
\* _connections ends in the step that makes it, with the "not connected"
\* error; that step writes no execute frame and adds no pending entry.
C3_NotConnected ==
    [][\A t \in Tasks :
          (task[t].pc = "idle" /\ task'[t].pc /= "idle"
           /\ task'[t].session_id \notin DOMAIN connections)
              => /\ task'[t].pc = "done"
                 /\ task'[t].outcome = "not_connected"
                 /\ sent' = sent
                 /\ pending' = pending
                 /\ future' = future]_vars

\* A call failed "not connected" while another session had a channel.
C3_Witness ==
    \E t \in Tasks :
        /\ task[t].pc = "done" /\ task[t].outcome = "not_connected"
        /\ task[t].session_id \notin DOMAIN connections
        /\ connections /= EmptyMap

\* --------------------------------------------------------------- C10
FutureOf(t) ==
    IF task[t].command_id \in CmdIds THEN future[task[t].command_id].st ELSE "none"

ExecuteSent(t) == Frame(task[t].websocket, "execute", task[t].command_id) \in sent

InFlightOnClosed(t) ==
    /\ task[t].pc = "wait"
    /\ ExecuteSent(t)
    /\ ws[task[t].websocket] /= "open"
    /\ FutureOf(t) = "pending"

Max(a, b) == IF a >= b THEN a ELSE b

\* max_retries and sleep_seconds (in milliseconds) of a call
MaxRetries == Max(1, config.reload_max_retries)

SleepMs == Max(MinSleepMs, config.reload_retry_ms)

\* unity_instance.rpartition("@")[2]
Suffix(str) ==
    LET ats == {i \in 1..Len(str) : str[i] = At}
    IN SubSeq(str, SetMax(ats) + 1, Len(str))

\* The target hash of a reference: the hash itself, or what follows the
\* last "@"; None for no reference and for an empty suffix.
TargetHashWholeReference(unity_instance) ==
    IF Truthy(unity_instance) THEN unity_instance ELSE None

TargetHash(unity_instance) ==
    IF Truthy(unity_instance)
    THEN IF \E i \in 1..Len(unity_instance) : unity_instance[i] = At
         THEN IF Suffix(unity_instance) = <<>> THEN None ELSE Suffix(unity_instance)
         ELSE unity_instance
    ELSE None

\* _try_once: <<session_id, len(sessions)>>.  next(iter(sessions.keys())) is
\* taken when the dict has exactly one key.
TryOnce(target_hash) ==
    IF Truthy(target_hash)
    THEN <<get_session_id_by_hash(target_hash), Cardinality(DOMAIN list_sessions)>>
    ELSE IF Cardinality(DOMAIN list_sessions) = 0 THEN <<NoSid, 0>>
    ELSE IF Cardinality(DOMAIN list_sessions) = 1
         THEN <<CHOOSE sid \in DOMAIN list_sessions : TRUE, 1>>
    ELSE <<NoSid, Cardinality(DOMAIN list_sessions)>>

\* The two RuntimeError texts of _resolve_session_id.  Neither is built from
\* the sessions the call saw.
AmbiguityTextWithFirstId(ss) ==
    <<"Multiple Unity instances are connected. Call set_active_instance with Name",
      At, "hash from unity://instances.">>
    \o (IF DOMAIN ss = {} THEN <<>>
        ELSE ss[SetMin(DOMAIN ss)].project_name \o <<At>>
             \o ss[SetMin(DOMAIN ss)].project_hash)

AmbiguityText(ss) ==
    <<"Multiple Unity instances are connected. Call set_active_instance with Name",
      At, "hash from unity://instances.">>

NoPluginText == <<"No Unity plugins are currently connected">>

\* deadline = time.monotonic() + max_retries * sleep_seconds
DeadlineOneInterval(t) == t + SleepMs

Deadline(t) == t + MaxRetries * SleepMs

Raise(r, error, message) ==
    [r EXCEPT !.pc = "done", !.error = error, !.message = message]

\* What the call does with the outcome <<session_id, session_count>> of a
\* _try_once: the loop condition, the ambiguity check inside the loop, the
\* sleep, and the code after the loop.
AfterPollNoEarlyAmbiguity(r, polled) ==
    LET r1 == [r EXCEPT !.session_id = polled[1]]
    IN IF polled[1] = NoSid /\ now' < r1.deadline
       THEN [r1 EXCEPT !.pc = "sleeping", !.wake = now' + SleepMs]
       ELSE IF polled[1] = NoSid /\ ~Truthy(r1.target_hash) /\ polled[2] > 1
            THEN Raise(r1, "ambiguous", AmbiguityText(sessions))
       ELSE IF polled[1] = NoSid
            THEN Raise(r1, "no_plugin", NoPluginText)
       ELSE [r1 EXCEPT !.pc = "done"]

AfterPollWaitsOutWindow(r, polled) ==
    LET r1 == [r EXCEPT !.session_id = polled[1]]
    IN IF now' < r1.deadline
       THEN IF polled[1] = NoSid /\ ~Truthy(r1.target_hash) /\ polled[2] > 1
            THEN Raise(r1, "ambiguous", AmbiguityText(sessions))
            ELSE [r1 EXCEPT !.pc = "sleeping", !.wake = now' + SleepMs]
       ELSE IF polled[1] = NoSid /\ ~Truthy(r1.target_hash) /\ polled[2] > 1
            THEN Raise(r1, "ambiguous", AmbiguityText(sessions))
       ELSE IF polled[1] = NoSid
            THEN Raise(r1, "no_plugin", NoPluginText)
       ELSE [r1 EXCEPT !.pc = "done"]

AfterPollAmbiguousWithTarget(r, polled) ==
    LET r1 == [r EXCEPT !.session_id = polled[1]]
    IN IF polled[1] = NoSid /\ now' < r1.deadline
       THEN IF polled[2] > 1
            THEN Raise(r1, "ambiguous", AmbiguityText(sessions))
            ELSE [r1 EXCEPT !.pc = "sleeping", !.wake = now' + SleepMs]
       ELSE IF polled[1] = NoSid /\ polled[2] > 1
            THEN Raise(r1, "ambiguous", AmbiguityText(sessions))
       ELSE IF polled[1] = NoSid
            THEN Raise(r1, "no_plugin", NoPluginText)
       ELSE [r1 EXCEPT !.pc = "done"]

AfterPoll(r, polled) ==
    LET r1 == [r EXCEPT !.session_id = polled[1]]
    IN IF polled[1] = NoSid /\ now' < r1.deadline
       THEN IF ~Truthy(r1.target_hash) /\ polled[2] > 1
            THEN Raise(r1, "ambiguous", AmbiguityText(sessions))
            ELSE [r1 EXCEPT !.pc = "sleeping", !.wake = now' + SleepMs]
       ELSE IF polled[1] = NoSid /\ ~Truthy(r1.target_hash) /\ polled[2] > 1
            THEN Raise(r1, "ambiguous", AmbiguityText(sessions))
       ELSE IF polled[1] = NoSid
            THEN Raise(r1, "no_plugin", NoPluginText)
       ELSE [r1 EXCEPT !.pc = "done"]

\* The call up to its first suspension point: the target hash, the first
\* _try_once, the deadline, and the first pass through the loop condition.
ResolveBegin(r, unity_instance) ==
    AfterPoll([r EXCEPT !.unity_instance = unity_instance,
                        !.target_hash = TargetHash(unity_instance),
                        !.deadline = Deadline(now'),
                        !.started = now'],
              TryOnce(TargetHash(unity_instance)))

\* asyncio.sleep(sleep_seconds) is over: the next _try_once.
ResolveResume(r) ==
    AfterPoll([r EXCEPT !.sleeps = @ + 1], TryOnce(r.target_hash))

resolve_session_id(c, unity_instance) ==
    /\ res[c].pc = "idle"
    /\ now' = now
    /\ res' = [res EXCEPT ![c] = ResolveBegin(res[c], unity_instance)]
    /\ UNCHANGED <<regVars, hubVars, config, mwVars>>

ResolveWake(c) ==
    /\ res[c].pc = "sleeping"
    /\ call[c].pc = "idle"
    /\ now >= res[c].wake
    /\ now' = now
    /\ res' = [res EXCEPT ![c] = ResolveResume(res[c])]
    /\ UNCHANGED <<regVars, hubVars, config, mwVars>>

\* Time passes while some call sleeps; the loop resumes a sleeper at most
\* MaxLateTicks ticks late.
Tick ==
    /\ \E c \in Calls : res[c].pc = "sleeping"
    /\ \A c \in Calls :
           res[c].pc = "sleeping" => now < res[c].wake + MaxLateTicks * MinSleepMs
    /\ now' = now + MinSleepMs
    /\ UNCHANGED <<regVars, hubVars, config, res, mwVars>>

\* The references a caller may pass.
References ==
    {None, <<>>}
    \cup Hashes
    \cup {<<"0000ffff">>}       \* the hash of a project that has no plugin
    \cup {n \o <<At>> \o h : n \in Names, h \in Hashes}
    \cup {n \o <<At>> : n \in Names}

\* Sessions come and go while calls resolve: what _handle_register and
\* on_disconnect do to the registry.
SessionAppears ==
    \E name \in Names, hash \in Hashes :
        /\ hub_configured
        /\ nextSid <= MaxSid
        /\ register(nextSid, name, hash)
        /\ nextSid' = nextSid + 1
        /\ UNCHANGED <<regLog, unregistered, hubVars, resVars, mwVars>>

SessionDisappears ==
    \E sid \in DOMAIN sessions :
        /\ unregister(sid)
        /\ UNCHANGED <<nextSid, regLog, unregistered, hubVars, resVars, mwVars>>

\* One call, made from outside the middleware.
ResolveNext ==
    \/ \E unity_instance \in References : resolve_session_id(1, unity_instance)
    \/ ResolveWake(1)
    \/ Tick
    \/ SessionAppears
    \/ SessionDisappears

ResolveInit == RegInit /\ HubInit /\ ResInit(Configs) /\ MwInit({TRUE})

SpecResolve == ResolveInit /\ [][ResolveNext]_vars

\* ---------------------------------------------------------------- C4
Begins(c) == res[c].pc = "idle" /\ res'[c].pc /= "idle"

\* C4: a resolution called with no instance reference while two or more
\* sessions are registered raises the ambiguity error in the step of the
\* call: the clock has not moved, no sleep was made, and the only _try_once
\* is the one the call starts with.
C4_AmbiguityImmediate ==
    [][\A c \in Calls :
          (Begins(c) /\ ~Truthy(res'[c].unity_instance)
           /\ Cardinality(DOMAIN sessions) >= 2)
              => /\ res'[c].pc = "done"
                 /\ res'[c].error = "ambiguous"
                 /\ res'[c].sleeps = 0
                 /\ now' = now]_vars

C4_Witness ==
    \E c \in Calls :
        /\ res[c].pc = "done" /\ res[c].error = "ambiguous"
        /\ res[c].unity_instance = None
        /\ res[c].sleeps = 0
        /\ Cardinality(DOMAIN sessions) >= 2

\* ---------------------------------------------------------------- C5
\* f"{project}@{hash}": the id of the instance behind a session
InstanceId(session) == session.project_name \o <<At>> \o session.project_hash

Occurs(sub, str) ==
    \E i \in 1..(Len(str) - Len(sub) + 1) : SubSeq(str, i, i + Len(sub) - 1) = sub

TwoPluginsNoReference(c) ==
    /\ Begins(c)
    /\ res'[c].unity_instance = None
    /\ Cardinality(DOMAIN sessions) = 2

\* C5 as stated: the ambiguity error names the ids of both instances.
C5_Original ==
    [][\A c \in Calls :
          TwoPluginsNoReference(c)
              => /\ res'[c].error = "ambiguous"
                 /\ \A sid \in DOMAIN sessions :
                        Occurs(InstanceId(sessions[sid]), res'[c].message)]_vars

\* C5 (amended): with two plugins registered, a command sent with no
\* instance reference fails with the ambiguity error, and the text of that
\* error names neither instance: it is the fixed text that sends the caller
\* to set_active_instance and unity://instances.
C5_AmbiguityNamesNoInstance ==
    [][\A c \in Calls :
          TwoPluginsNoReference(c)
              => /\ res'[c].pc = "done"
                 /\ res'[c].error = "ambiguous"
                 /\ \A sid \in DOMAIN sessions :
                        ~Occurs(InstanceId(sessions[sid]), res'[c].message)
                 /\ Occurs(<<"hash from unity://instances.">>, res'[c].message)]_vars

C5_Witness ==
    \E c \in Calls :
        /\ res[c].pc = "done" /\ res[c].error = "ambiguous"
        /\ res[c].unity_instance = None
        /\ {sessions[sid].project_hash : sid \in DOMAIN sessions} = Hashes

\* ---------------------------------------------------------------- C6
Ends(c) == res[c].pc /= "done" /\ res'[c].pc = "done"

\* C6: a resolution during which no session ever registered ends with the
\* "no plugin connected" error, and not before (max_retries - 1) sleep
\* intervals have passed since the call.
C6_NoEarlyFailure ==
    [][\A c \in Calls :
          (Ends(c) /\ nextSid' = 1)
              => /\ res'[c].error = "no_plugin"
                 /\ now' - res'[c].started >= (MaxRetries - 1) * SleepMs]_vars

C6_Witness ==
    \E c \in Calls :
        /\ res[c].pc = "done" /\ res[c].error = "no_plugin"
        /\ nextSid = 1
        /\ MaxRetries >= 3
        /\ res[c].sleeps >= 2

\* ---------------------------------------------------------------- C7
\* The sessions a target hash stands for; with no target, the session that
\* is registered alone.
Matching(target_hash) ==
    IF Truthy(target_hash)
    THEN {sid \in DOMAIN sessions : sessions[sid].project_hash = target_hash}
    ELSE IF Cardinality(DOMAIN sessions) = 1 THEN DOMAIN sessions ELSE {}

Polls(c) == res[c].pc = "sleeping" /\ res'[c].sleeps = res[c].sleeps + 1

\* C7: when a waiting resolution polls and a session matching its reference
\* is registered, that poll ends the call with this session's id; the call
\* does not sleep again.
C7_ReturnsAtFirstPoll ==
    [][\A c \in Calls :
          (Polls(c) /\ Matching(res[c].target_hash) /= {})
              => /\ res'[c].pc = "done"
                 /\ res'[c].error = "-"
                 /\ res'[c].session_id \in Matching(res[c].target_hash)]_vars

\* A call that waited returned a session before its window was over.
C7_Witness ==
    \E c \in Calls :
        /\ res[c].pc = "done" /\ res[c].error = "-"
        /\ res[c].session_id \in Matching(res[c].target_hash)
        /\ res[c].sleeps >= 1
        /\ now + SleepMs < res[c].deadline

\* ---------------------------------------------- UnityInstanceMiddleware
\* _get_session_key
SessionKeyNoClientId(ctx) ==
    IF Truthy(ctx.session_id) THEN ctx.session_id ELSE <<"global">>

SessionKey(ctx) ==
    IF Truthy(ctx.session_id) THEN ctx.session_id
    ELSE IF Truthy(ctx.client_id) THEN ctx.client_id
    ELSE <<"global">>

get_active_instance(ctx) == MapGet(active_by_key, SessionKey(ctx), None)

set_active_instance(active, ctx, instance_id) ==
    MapPut(active, SessionKey(ctx), instance_id)

ClearNothing(active, ctx) == active

clear_active_instance(active, ctx) == MapDel(active, SessionKey(ctx))

\* The locals of a _resolve_session_id call are gone once it has returned
\* or raised into its caller.
Live(r) == IF r.pc = "done" THEN IdleRes ELSE r

\* on_call_tool from the point where _resolve_session_id has returned or
\* raised (r is that call): the except branch, or the two set_state calls;
\* then call_next.
CallAfterResolveSessionOnly(k, r) ==
    IF r.error /= "-"
    THEN [k EXCEPT !.pc = "in_tool", !.invoked = @ + 1, !.mw_error = r.error]
    ELSE [k EXCEPT !.pc = "in_tool", !.invoked = @ + 1,
                   !.state = [unity_instance |-> None,
                              unity_session_id |-> r.session_id]]

CallAfterResolve(k, r) ==
    IF r.error /= "-"
    THEN [k EXCEPT !.pc = "in_tool", !.invoked = @ + 1, !.mw_error = r.error]
    ELSE [k EXCEPT !.pc = "in_tool", !.invoked = @ + 1,
                   !.state = [unity_instance |-> k.active_instance,
                              unity_session_id |-> r.session_id]]

ActiveAfterResolve(k, r) ==
    IF r.error /= "-" THEN clear_active_instance(active_by_key, k.ctx)
    ELSE active_by_key

\* The tools a call may be for: a command tool, or set_active_instance with
\* its "instance" argument.
ToolArgs ==
    {<<"command", None>>,
     <<"set_active_instance", <<"Proj", At, "abcd1234">>>>,
     <<"set_active_instance", <<"abcd1234">>>>}

\* on_call_tool up to its first suspension point.  The call takes the free
\* slot with the least number.
on_call_tool(c, ctx, tool, arg) ==
    /\ ncalls < MaxToolCalls
    /\ call[c].pc \in {"idle", "done"}
    /\ \A d \in Calls : d < c => call[d].pc \notin {"idle", "done"}
    /\ ncalls' = ncalls + 1
    /\ now' = now
    /\ LET active_instance == get_active_instance(ctx)
           k == [IdleCall EXCEPT !.ctx = ctx, !.tool = tool, !.arg = arg,
                                 !.active_instance = active_instance]
           r == ResolveBegin(IdleRes, active_instance)
       IN IF ~Truthy(active_instance)
          THEN /\ call' = [call EXCEPT ![c] = [k EXCEPT !.pc = "in_tool", !.invoked = 1]]
               /\ res' = [res EXCEPT ![c] = IdleRes]
               /\ UNCHANGED active_by_key
          ELSE IF ~hub_configured
          THEN /\ call' = [call EXCEPT ![c] =
                      [k EXCEPT !.pc = "in_tool", !.invoked = 1,
                                !.state = [unity_instance |-> active_instance,
                                           unity_session_id |-> NoSid]]]
               /\ res' = [res EXCEPT ![c] = IdleRes]
               /\ UNCHANGED active_by_key
          ELSE /\ res' = [res EXCEPT ![c] = Live(r)]
               /\ IF r.pc = "done"
                  THEN /\ call' = [call EXCEPT ![c] = CallAfterResolve(k, r)]
                       /\ active_by_key' = ActiveAfterResolve(k, r)
                  ELSE /\ call' = [call EXCEPT ![c] = [k EXCEPT !.pc = "resolving"]]
                       /\ UNCHANGED active_by_key
    /\ UNCHANGED <<regVars, hubVars, config, hub_configured>>

\* The sleep of the middleware's resolution is over.
MiddlewareWake(c) ==
    /\ call[c].pc = "resolving"
    /\ res[c].pc = "sleeping"
    /\ now >= res[c].wake
    /\ now' = now
    /\ LET r == ResolveResume(res[c])
       IN /\ res' = [res EXCEPT ![c] = Live(r)]
          /\ IF r.pc = "done"
             THEN /\ call' = [call EXCEPT ![c] = CallAfterResolve(call[c], r)]
                  /\ active_by_key' = ActiveAfterResolve(call[c], r)
             ELSE UNCHANGED <<call, active_by_key>>
    /\ UNCHANGED <<regVars, hubVars, config, hub_configured, ncalls>>

\* get_unity_instance_from_context, then send_with_unity_instance: the
\* instance_id keyword is passed only for a truthy unity_instance.
ForwardedInstance(state) ==
    IF Truthy(state.unity_instance) THEN state.unity_instance ELSE None

\* The send function of a tool passes its instance_id keyword on as the
\* unity_instance of send_command_for_instance: the command is dispatched
\* to the instance the middleware injected.
TransportInstance(instance_id) == instance_id

\* send_command_for_instance once _resolve_session_id has returned or raised.
SendAfterResolve(k, r) ==
    IF r.error /= "-"
    THEN [k EXCEPT !.pc = "done", !.result = r.error]
    ELSE [k EXCEPT !.pc = "done", !.result = "sent", !.dispatched_to = r.session_id]

\* A command tool: the instance from the request state goes to
\* send_command_for_instance, which raises at once ("Plugin registry not
\* configured") when the hub has no registry.
ToolSend(c) ==
    /\ call[c].pc = "in_tool"
    /\ call[c].tool = "command"
    /\ now' = now
    /\ LET k == [call[c] EXCEPT !.instance_id = ForwardedInstance(call[c].state)]
           r == ResolveBegin(IdleRes, TransportInstance(k.instance_id))
       IN IF ~hub_configured
          THEN /\ call' = [call EXCEPT ![c] =
                      [k EXCEPT !.pc = "done", !.result = "not_configured"]]
               /\ UNCHANGED res
          ELSE /\ res' = [res EXCEPT ![c] = Live(r)]
               /\ call' = [call EXCEPT ![c] =
                      IF r.pc = "done" THEN SendAfterResolve(k, r)
                      ELSE [k EXCEPT !.pc = "dispatching"]]
    /\ UNCHANGED <<regVars, hubVars, config, hub_configured, active_by_key, ncalls>>

ToolSendWake(c) ==
    /\ call[c].pc = "dispatching"
    /\ res[c].pc = "sleeping"
    /\ now >= res[c].wake
    /\ now' = now
    /\ LET r == ResolveResume(res[c])
       IN /\ res' = [res EXCEPT ![c] = Live(r)]
          /\ call' = [call EXCEPT ![c] =
                 IF r.pc = "done" THEN SendAfterResolve(call[c], r) ELSE call[c]]
    /\ UNCHANGED <<regVars, hubVars, config, hub_configured, active_by_key, ncalls>>

\* The set_active_instance tool over the hub's sessions: the ids are
\* "<project>@<hash>" of the sessions that have a hash.
ConnectedIds ==
    {InstanceId(sessions[sid]) :
        sid \in {x \in DOMAIN sessions : Truthy(sessions[x].project_hash)}}

\* value = (instance or "").strip(): whitespace is the token Space.
Space == " "

Strip(str) ==
    LET kept == {i \in 1..Len(str) : str[i] /= Space}
    IN IF kept = {} THEN <<>> ELSE SubSeq(str, SetMin(kept), SetMax(kept))

Stripped(instance) == IF Truthy(instance) THEN Strip(instance) ELSE <<>>

SetActiveOutcomeHashAccepted(value) ==
    IF ConnectedIds = {} THEN "none_connected"
    ELSE IF Stripped(value) = <<>> THEN "not_name_at_hash"
    ELSE IF \E id \in ConnectedIds : Stripped(value) \in {id, Suffix(id)} THEN "ok"
    ELSE "not_found"

SetActiveOutcome(value) ==
    IF ConnectedIds = {} THEN "none_connected"
    ELSE IF Stripped(value) = <<>>
            \/ ~(\E i \in 1..Len(Stripped(value)) : Stripped(value)[i] = At)
         THEN "not_name_at_hash"
    ELSE IF Stripped(value) \notin ConnectedIds THEN "not_found"
    ELSE "ok"

ToolSetActiveInstance(c) ==
    /\ call[c].pc = "in_tool"
    /\ call[c].tool = "set_active_instance"
    /\ call' = [call EXCEPT ![c].pc = "done",
                            ![c].result = SetActiveOutcome(call[c].arg)]
    /\ active_by_key' =
           IF SetActiveOutcome(call[c].arg) = "ok"
           THEN set_active_instance(active_by_key, call[c].ctx, Stripped(call[c].arg))
           ELSE active_by_key
    /\ UNCHANGED <<regVars, hubVars, resVars, hub_configured, ncalls>>

MwConfigs ==
    {[reload_max_retries |-> 0, reload_retry_ms |-> 0],
     [reload_max_retries |-> 2, reload_retry_ms |-> MinSleepMs]}

MwNext ==
    \/ \E c \in Calls, ctx \in Contexts, ta \in ToolArgs : on_call_tool(c, ctx, ta[1], ta[2])
    \/ \E c \in Calls : MiddlewareWake(c)
    \/ \E c \in Calls : ToolSend(c)
    \/ \E c \in Calls : ToolSendWake(c)
    \/ \E c \in Calls : ToolSetActiveInstance(c)
    \/ Tick
    \/ SessionAppears
    \/ SessionDisappears

MwSpecInit == RegInit /\ HubInit /\ ResInit(MwConfigs) /\ MwInit(BOOLEAN)

SpecMw == MwSpecInit /\ [][MwNext]_vars

\* ---------------------------------------------------------------- C8
BeginsCall(c) == call[c].pc \in {"idle", "done"} /\ call'[c].pc \notin {"idle", "done"}

\* The middleware's resolution of the caller's binding fails in this step.
StaleBindingFound(c) ==
    /\ call[c].pc \in {"idle", "done", "resolving"}
    /\ call'[c].pc = "in_tool"
    /\ call'[c].mw_error /= "-"

\* C8: when the resolution of a caller's binding fails, the tool call is
\* not failed: in that step the binding is removed and the wrapped
\* operation is entered, once, with nothing injected into the request
\* state; no call ever enters the wrapped operation twice.
C8_StaleBindingCleared ==
    /\ [][\A c \in Calls :
             StaleBindingFound(c)
                 => /\ Truthy(call'[c].active_instance)
                    /\ SessionKey(call'[c].ctx) \notin DOMAIN active_by_key'
                    /\ call'[c].invoked = 1
                    /\ call'[c].state.unity_instance = None
                    /\ call'[c].state.unity_session_id = NoSid]_vars
    /\ [](\A c \in Calls :
             call[c].pc \in {"in_tool", "dispatching", "done"} => call[c].invoked = 1)

\* A call whose binding had lost its session is inside its tool, the
\* binding gone.
C8_Witness ==
    \E c \in Calls :
        /\ call[c].pc = "in_tool"
        /\ call[c].mw_error = "no_plugin"
        /\ Truthy(call[c].active_instance)
        /\ call[c].invoked = 1
        /\ SessionKey(call[c].ctx) \notin DOMAIN active_by_key
        /\ call[c].state.unity_instance = None

\* ---------------------------------------------------------------- C9
\* The sessions registered for an instance id "Name@hash".
RegisteredFor(instance_id) ==
    {sid \in DOMAIN sessions : InstanceId(sessions[sid]) = instance_id}

Sends(c) ==
    call[c].pc = "in_tool" /\ call[c].tool = "command" /\ call'[c].pc /= "in_tool"

\* C9: a tool call of a caller whose selection Name@h has its session
\* registered enters its tool with Name@h in the request state; the command
\* it sends then carries Name@h and send_command is called with the session
\* registered for h.  A call of a caller with no selection enters its tool
\* with no instance in the request state and forwards none.
C9_SelectionIsRouted ==
    /\ [][\A c \in Calls :
             BeginsCall(c)
                 => IF ~Truthy(get_active_instance(call'[c].ctx))
                    THEN /\ call'[c].pc = "in_tool"
                         /\ call'[c].state.unity_instance = None
                    ELSE RegisteredFor(get_active_instance(call'[c].ctx)) /= {}
                         => /\ call'[c].pc = "in_tool"
                            /\ call'[c].state.unity_instance
                                   = get_active_instance(call'[c].ctx)
                            /\ call'[c].state.unity_session_id
                                   \in RegisteredFor(get_active_instance(call'[c].ctx))]_vars
    /\ [][\A c \in Calls :
             Sends(c)
                 => IF ~Truthy(call[c].active_instance)
                    THEN call'[c].instance_id = None
                    ELSE call[c].mw_error = "-"
                         => /\ call'[c].instance_id = call[c].active_instance
                            /\ (hub_configured /\ RegisteredFor(call[c].active_instance) /= {})
                                   => /\ call'[c].pc = "done"
                                      /\ call'[c].dispatched_to
                                             \in RegisteredFor(call[c].active_instance)]_vars

\* A command of a caller with a selection went to the session of the
\* selected instance.
C9_Witness ==
    \E c \in Calls :
        /\ call[c].pc = "done" /\ call[c].tool = "command"
        /\ Truthy(call[c].active_instance)
        /\ call[c].instance_id = call[c].active_instance
        /\ call[c].dispatched_to \in RegisteredFor(call[c].active_instance)

\* --------------------------------------------------------------- C13
\* A register call was made in this step: its session id and hash.
Registers == Len(regLog') = Len(regLog) + 1

Registered == regLog'[Len(regLog')]

\* C13 as stated: register(s2, h) while s1 owns h repoints the hash to s2
\* and leaves s1's entry in the session map.
C13_Original ==
    [][(Registers /\ get_session_id_by_hash(Registered[2]) /= NoSid)
          => /\ MapGet(hash_to_session', Registered[2], NoSid) = Registered[1]
             /\ get_session_id_by_hash(Registered[2]) \in DOMAIN sessions']_vars

\* C13 (amended): register(s2, h) while s1 owns h repoints the hash to s2
\* and removes s1's entry from the session map in the same call; s2's entry
\* is there.
C13_PreviousSessionRemoved ==
    [][(Registers /\ get_session_id_by_hash(Registered[2]) /= NoSid)
          => /\ MapGet(hash_to_session', Registered[2], NoSid) = Registered[1]
             /\ get_session_id_by_hash(Registered[2]) \in DOMAIN sessions
             /\ get_session_id_by_hash(Registered[2]) \notin DOMAIN sessions'
             /\ Registered[1] \in DOMAIN sessions']_vars

\* A session that a later register for its hash replaced is gone from the
\* session map without having been unregistered.
C13_Witness ==
    \E h \in Hashes : \E i \in RegsFor(h) :
        /\ regLog[i][1] /= LastRegistered(h)
        /\ regLog[i][1] \notin unregistered
        /\ regLog[i][1] \notin DOMAIN sessions
        /\ LastRegistered(h) \in DOMAIN sessions
        /\ get_session_id_by_hash(h) = LastRegistered(h)

\* --------------------------------------------------------------- C14
\* unregister is called in this step, for the first time with session s.
Unregisters(s) == s \notin unregistered /\ unregistered' = unregistered \cup {s}

\* Session s was registered under h and a later register for h came after.
Superseded(s, h) ==
    /\ \E i \in RegsFor(h) : regLog[i][1] = s
    /\ LastRegistered(h) /= s

\* C14: an unregister of a session that a newer session of the same hash
\* has superseded leaves the hash mapped to the newer session and leaves the
\* newer session's record as it was.
C14_StaleUnregisterHarmless ==
    [][\A s \in 1..MaxRegSid : \A h \in Hashes :
          (Unregisters(s) /\ Superseded(s, h) /\ LastRegistered(h) \notin unregistered)
              => /\ MapGet(hash_to_session', h, NoSid) = LastRegistered(h)
                 /\ LastRegistered(h) \in DOMAIN sessions
                 /\ LastRegistered(h) \in DOMAIN sessions'
                 /\ sessions'[LastRegistered(h)] = sessions[LastRegistered(h)]]_vars

\* The older session of a hash was unregistered after the newer one had
\* registered, and the newer one is still what the hash resolves to.
C14_Witness ==
    \E h \in Hashes : \E i \in RegsFor(h) :
        /\ regLog[i][1] /= LastRegistered(h)
        /\ regLog[i][1] \in unregistered
        /\ LastRegistered(h) \notin unregistered
        /\ get_session_id_by_hash(h) = LastRegistered(h)
        /\ sessions[LastRegistered(h)].project_hash = h

\* ------------------------------------------------- the register handshake
\* RegisterMessage(**data): project_hash is a required str, so a frame
\* without the field does not validate (None stands for the missing field).
RegisterMessageValid(hash) == hash /= None

\* websocket.close(code=4400) for a frame that validated but has no hash.
ProtocolErrorCode == 4400

RegisterCloseCode(hash, code) == IF ~Truthy(hash) THEN ProtocolErrorCode ELSE code

\* on_receive of a register frame: RegisterMessage(**data), then
\* _handle_register up to its first send.  The ValidationError of a frame
\* that does not validate is caught and logged by on_receive.
OnReceiveRegister(w, name, hash) ==
    /\ ws[w] = "open"
    /\ handler[w].pc = "idle"
    /\ IF ~RegisterMessageValid(hash)
       THEN /\ handshake' = [handshake EXCEPT ![w].project_hash = hash]
            /\ UNCHANGED <<regVars, ws, handler, connections, pending, future,
                           nextCmd, task, sent>>
       ELSE /\ HandleRegisterBegin(w, name, hash)
            /\ handshake' = [handshake EXCEPT ![w] =
                   [project_hash |-> hash,
                    close_code |-> RegisterCloseCode(hash, @.close_code)]]

HandshakeNext ==
    \/ /\ \/ \E w \in WebSockets : on_connect(w)
          \/ \E w \in WebSockets : PeerClose(w)
          \/ \E w \in WebSockets : HandleRegisterCommit(w)
          \/ \E w \in WebSockets : HandleRegisterSendFails(w)
          \/ \E w \in WebSockets : on_disconnect(w)
       /\ UNCHANGED <<obsVars, bridgeVars, sideVars, resVars, mwVars>>
    \/ /\ \E w \in WebSockets, name \in Names, hash \in Hashes \cup {<<>>, None} :
              OnReceiveRegister(w, name, hash)
       /\ UNCHANGED <<dropped, bridgeVars, sideVars, resVars, mwVars>>

SpecHandshake == Init /\ [][HandshakeNext]_vars

\* --------------------------------------------------------------- C12
\* A register frame arrived on w in this step, and it carries no non-empty
\* project hash.
RefusedRegister(w) ==
    /\ handshake'[w] /= handshake[w]
    /\ handshake'[w].project_hash \in {None, <<>>}

\* C12: a register frame without a non-empty project hash (empty or
\* missing) gets the WebSocket closed with the protocol-error code; the hub
\* does not go on to send a registered frame, and nothing is added to the
\* registry or to the channel bindings.
C12_Original ==
    [][\A w \in WebSockets :
          RefusedRegister(w)
              => /\ ws'[w] = "closed"
                 /\ handshake'[w].close_code = ProtocolErrorCode
                 /\ handler'[w].pc = "idle"
                 /\ sessions' = sessions
                 /\ hash_to_session' = hash_to_session
                 /\ connections' = connections]_vars

\* --------------------------------------------------------------- C16
Others(t) == Tasks \ {t}

\* C16: the timeout of one send_command call cancels only that call's
\* future, gives the timeout error to that call only and removes only that
\* call's pending entry; every other call that is waiting keeps its pending
\* entry, which is what a command_result frame for it is matched against.
C16_TimeoutIsolated ==
    /\ [][\A t \in Tasks :
             /\ (task[t].pc = "wait" /\ task'[t].pc = "timed_out")
                    => /\ pending' = pending
                       /\ \A c \in CmdIds \ {task[t].command_id} : future'[c] = future[c]
                       /\ \A u \in Others(t) : task'[u] = task[u]
             /\ (task[t].pc = "timed_out" /\ task'[t].pc = "done")
                    => /\ task'[t].outcome = "timeout"
                       /\ pending' = pending \ {task[t].command_id}
                       /\ future' = future
                       /\ \A u \in Others(t) : task'[u] = task[u]]_vars
    /\ [](\A u \in Tasks :
             task[u].pc \in {"send", "wait"} => task[u].command_id \in pending)

\* One call has ended by its timeout while another call on the same open
\* WebSocket is still waiting, its pending entry in place.
C16_Witness ==
    \E t \in Tasks : \E u \in Others(t) :
        /\ task[t].pc = "done" /\ task[t].outcome = "timeout"
        /\ task[u].pc = "wait" /\ task[u].websocket = task[t].websocket
        /\ ws[task[u].websocket] = "open"
        /\ ExecuteSent(t) /\ ExecuteSent(u)
        /\ task[u].command_id \in pending
        /\ FutureOf(u) = "pending"

\* --------------------------------------------------------------- C17
\* C17: a future is only ever given the result of the frame that carries
\* its own command id, and a send_command call returns only the result of
\* its own command, whatever the order the frames come in.
C17_OwnResult ==
    /\ \A c \in CmdIds :
           future[c].st = "result" => future[c].result = ResultPayload(c)
    /\ \A t \in Tasks :
           task[t].outcome = "result"
               => task[t].result = ResultPayload(task[t].command_id)

\* Two calls were in flight on one WebSocket; the later one has returned
\* its own result while the earlier one is still waiting for its frame.
C17_Witness ==
    \E t \in Tasks : \E u \in Others(t) :
        /\ task[t].websocket = task[u].websocket
        /\ task[t].command_id < task[u].command_id
        /\ task[t].pc = "wait" /\ ExecuteSent(t) /\ FutureOf(t) = "pending"
        /\ task[u].pc = "done" /\ task[u].outcome = "result"
        /\ task[u].result = ResultPayload(task[u].command_id)

\* ------------------------------------- command_result frames, observed
\* SpecHub with the frames that find no waiter written down.
NothingToDeliver(c) == c \notin pending \/ future[c].st /= "pending"

OnReceiveCommandResult(w, c) ==
    /\ HandleCommandResult(w, c)
    /\ dropped' = IF NothingToDeliver(c)
                  THEN [id |-> c, st |-> IF c \in pending THEN future[c].st ELSE "unmatched"]
                  ELSE dropped

ResultsNext ==
    \/ /\ \/ \E w \in WebSockets : on_connect(w)
          \/ \E w \in WebSockets : PeerClose(w)
          \/ \E w \in WebSockets, name \in Names, hash \in Hashes \cup {<<>>} :
                 HandleRegisterBegin(w, name, hash)
          \/ \E w \in WebSockets : HandleRegisterCommit(w)
          \/ \E w \in WebSockets : HandleRegisterSendFails(w)
          \/ \E w \in WebSockets : on_disconnect(w)
          \/ HubCommandNext
       /\ UNCHANGED <<obsVars, bridgeVars, sideVars, resVars, mwVars>>
    \/ /\ \E w \in WebSockets, c \in CmdIds : OnReceiveCommandResult(w, c)
       /\ UNCHANGED <<handshake, bridgeVars, sideVars, resVars, mwVars>>

SpecResults == Init /\ [][ResultsNext]_vars

\* --------------------------------------------------------------- C15
\* C15: a command_result frame whose id has no pending entry, or whose
\* future is already resolved or cancelled by the timeout, changes no
\* future, no pending entry and no call; a future that is not pending is
\* never given a result, so the first result stays.
C15_LateResultDropped ==
    /\ [][dropped' /= dropped
             => /\ future' = future
                /\ pending' = pending
                /\ task' = task]_vars
    /\ [][\A c \in CmdIds :
             future[c].st /= "pending"
                 => \/ future'[c] = future[c]
                    \/ future[c].st = "none" /\ future'[c] = PendingFuture]_vars

\* A frame came for a command whose call had timed out, and the call ended
\* with the timeout error.
C15_Witness ==
    \E t \in Tasks :
        /\ task[t].pc = "done" /\ task[t].outcome = "timeout"
        /\ dropped = [id |-> task[t].command_id, st |-> "cancelled"]
        /\ FutureOf(t) = "cancelled"

\* --------------------------------------------------------------- C18
\* The call fails in this step, its retry window over.
FailsAfterWindow(c) ==
    Ends(c) /\ res'[c].error /= "-" /\ now' >= res'[c].deadline

AmbiguousNow(c) == ~Truthy(res'[c].target_hash) /\ Cardinality(DOMAIN sessions) > 1

\* C18 as stated: a call that fails with its window over fails with the
\* "no plugin connected" error; the ambiguity error is another error and
\* comes only for no target and more than one session.
C18_Original ==
    [][\A c \in Calls :
          /\ FailsAfterWindow(c)
                 => /\ res'[c].error = "no_plugin"
                    /\ res'[c].message = NoPluginText
                    /\ res'[c].message /= AmbiguityText(sessions)
          /\ (Ends(c) /\ res'[c].error = "ambiguous") => AmbiguousNow(c)]_vars

\* C18 (amended): a call that fails with its window over fails with the
\* "no plugin connected" error, unless it has no target and its last poll
\* found more than one session: then it fails with the ambiguity error.
\* The two errors have different texts, the ambiguity error comes only for
\* no target and more than one session, and the "no plugin connected"
\* error comes only once the window is over.
C18_NoPluginUnlessAmbiguous ==
    [][\A c \in Calls :
          /\ FailsAfterWindow(c)
                 => IF AmbiguousNow(c)
                    THEN /\ res'[c].error = "ambiguous"
                         /\ res'[c].message = AmbiguityText(sessions)
                    ELSE /\ res'[c].error = "no_plugin"
                         /\ res'[c].message = NoPluginText
          /\ (Ends(c) /\ res'[c].error = "ambiguous") => AmbiguousNow(c)
          /\ (Ends(c) /\ res'[c].error = "no_plugin") => now' >= res'[c].deadline
          /\ NoPluginText /= AmbiguityText(sessions)]_vars

\* A call for a hash waited its window out and failed with the "no plugin
\* connected" error while a session of another hash was registered.
C18_Witness ==
    \E c \in Calls :
        /\ res[c].pc = "done" /\ res[c].error = "no_plugin"
        /\ res[c].message = NoPluginText
        /\ Truthy(res[c].target_hash)
        /\ res[c].sleeps >= 1
        /\ now >= res[c].deadline
        /\ DOMAIN sessions /= {}
        /\ Matching(res[c].target_hash) = {}

\* ------------------------------------------- the set_active_instance tool
\* The values a caller may give the tool.
SelectValues ==
    {<<>>, <<"Proj">>, <<"abcd1234">>,
     <<"Proj", At, "abcd1234">>, <<"Proj", At, "efgh5678">>,
     <<Space, "Proj", At, "abcd1234", Space>>}

SelectNext ==
    \/ \E c \in Calls, ctx \in Contexts, value \in SelectValues :
           on_call_tool(c, ctx, "set_active_instance", value)
    \/ \E c \in Calls : MiddlewareWake(c)
    \/ \E c \in Calls : ToolSetActiveInstance(c)
    \/ Tick
    \/ SessionAppears
    \/ SessionDisappears

\* The tool is looked at with the hub configured (the HTTP transport).
SelectInit ==
    /\ RegInit /\ HubInit /\ MwInit({TRUE})
    /\ ResInit({[reload_max_retries |-> 0, reload_retry_ms |-> 0]})

SpecSelect == SelectInit /\ [][SelectNext]_vars

\* --------------------------------------------------------------- C19
\* The set_active_instance tool of call c returns in this step.
Selects(c) ==
    /\ call[c].pc = "in_tool" /\ call[c].tool = "set_active_instance"
    /\ call'[c].pc = "done"

RunningLoopOf(thread) ==
    IF thread = "hub_loop_thread" THEN "hub"
    ELSE IF thread = "other_loop_thread" THEN "other"
    ELSE "none"

\* loop.is_running() and running_loop is loop
SyncNeverRejected(thread) == FALSE

SyncRejected(thread) == loop_running /\ RunningLoopOf(thread) = "hub"

\* send_command_blocking and list_sessions_sync: _run_coroutine_sync up to
\* future.result().  Code runs on the thread of the hub's loop only as a
\* callback or coroutine of that loop, that is while the loop is running.
RunCoroutineSync(k, thread, helper) ==
    /\ sync[k].pc = "idle"
    /\ \A j \in SyncCalls : j < k => sync[j].pc /= "idle"
    /\ thread = "hub_loop_thread" => loop_running /\ ~loop_blocked
    /\ IF ~hub_configured
       THEN /\ sync' = [sync EXCEPT ![k] = [pc |-> "done", thread |-> thread,
                            helper |-> helper, outcome |-> "not_configured"]]
            /\ UNCHANGED <<submitted, loop_blocked>>
       ELSE IF SyncRejected(thread)
       THEN /\ sync' = [sync EXCEPT ![k] = [pc |-> "done", thread |-> thread,
                            helper |-> helper, outcome |-> "rejected"]]
            /\ UNCHANGED <<submitted, loop_blocked>>
       ELSE /\ sync' = [sync EXCEPT ![k] = [pc |-> "blocked", thread |-> thread,
                            helper |-> helper, outcome |-> "-"]]
            /\ submitted' = submitted \cup {k}
            /\ loop_blocked' = (loop_blocked \/ thread = "hub_loop_thread")
    /\ UNCHANGED <<regVars, ws, handler, connections, pending, future, nextCmd,
                   task, sent, obsVars, loop_running, sideVars, resVars, mwVars>>

\* The hub's loop runs a submitted coroutine to its end; future.result()
\* returns its result or raises its exception in the calling thread.
CoroutineEnds(k, outcome) ==
    /\ k \in submitted
    /\ loop_running /\ ~loop_blocked
    /\ submitted' = submitted \ {k}
    /\ sync' = [sync EXCEPT ![k].pc = "done", ![k].outcome = outcome]
    /\ UNCHANGED <<regVars, ws, handler, connections, pending, future, nextCmd,
                   task, sent, obsVars, loop_running, loop_blocked, sideVars, resVars, mwVars>>

\* The loop PluginHub.configure was given starts to run.
LoopStarts ==
    /\ hub_configured
    /\ ~loop_running
    /\ loop_running' = TRUE
    /\ UNCHANGED <<regVars, ws, handler, connections, pending, future, nextCmd,
                   task, sent, obsVars, sync, submitted, loop_blocked, sideVars, resVars, mwVars>>

BridgeNext ==
    \/ \E k \in SyncCalls, thread \in Threads,
          helper \in {"send_command_blocking", "list_sessions_sync"} :
           RunCoroutineSync(k, thread, helper)
    \/ \E k \in SyncCalls, outcome \in {"result", "error"} : CoroutineEnds(k, outcome)
    \/ LoopStarts

BridgeInit == RegInit /\ HubInit /\ ResInit({DefaultConfig}) /\ MwInit(BOOLEAN)

SpecBridge == BridgeInit /\ [][BridgeNext]_vars

\* --------------------------------------------------------------- C20
\* A blocking helper is called in this step.
CallsSync(k) == sync[k].pc = "idle" /\ sync'[k].pc /= "idle"

\* C20: with the hub configured, a blocking helper called on the thread of
\* the hub's running loop raises at once: nothing is submitted and the
\* thread does not wait.  Called on any other thread, its coroutine is
\* submitted to the hub's loop and that thread waits.  The thread of the
\* hub's loop never waits for a submitted coroutine.
C20_NoWaitOnLoopThread ==
    /\ [][\A k \in SyncCalls :
             (CallsSync(k) /\ hub_configured)
                 => IF sync'[k].thread = "hub_loop_thread"
                    THEN /\ sync'[k].pc = "done"
                         /\ sync'[k].outcome = "rejected"
                         /\ submitted' = submitted
                    ELSE /\ sync'[k].pc = "blocked"
                         /\ submitted' = submitted \cup {k}]_vars
    /\ [](~loop_blocked)
    /\ [](\A k \in SyncCalls :
             sync[k].pc = "blocked" => sync[k].thread /= "hub_loop_thread")

\* One helper call was rejected on the loop's thread while another, made
\* on a plain thread, waits for its coroutine on the running loop.
C20_Witness ==
    \E j, k \in SyncCalls :
        /\ sync[j].pc = "done" /\ sync[j].thread = "hub_loop_thread"
        /\ sync[j].outcome = "rejected"
        /\ sync[k].pc = "blocked" /\ sync[k].thread = "plain_thread"
        /\ k \in submitted /\ j \notin submitted
        /\ loop_running /\ ~loop_blocked

\* ------------------------------------------- send_command_for_instance
\* send_command_for_instance from the poll that ended _resolve_session_id
\* (r is that call): with a session id, send_command starts in the same
\* step (there is no suspension point between the two); with an error the
\* call is over.  Call c runs send_command as task c.
DispatchAfterPoll(c, r) ==
    /\ res' = [res EXCEPT ![c] = r]
    /\ IF r.pc = "done" /\ r.error = "-"
       THEN SendCommandCall(c, r.session_id)
       ELSE UNCHANGED <<regVars, ws, handler, connections, pending, future,
                        nextCmd, task, sent>>
    /\ UNCHANGED <<obsVars, bridgeVars, sideVars, config, mwVars>>

send_command_for_instance(c, unity_instance) ==
    /\ res[c].pc = "idle"
    /\ hub_configured
    /\ now' = now
    /\ DispatchAfterPoll(c, ResolveBegin(res[c], unity_instance))

DispatchWake(c) ==
    /\ res[c].pc = "sleeping"
    /\ now >= res[c].wake
    /\ now' = now
    /\ DispatchAfterPoll(c, ResolveResume(res[c]))

DispatchReferences == {None, <<"abcd1234">>, <<"Proj", At, "abcd1234">>}

\* One command, the plugins coming and going, and the clock.
DispatchNext ==
    \/ \E unity_instance \in DispatchReferences :
           send_command_for_instance(1, unity_instance)
    \/ DispatchWake(1)
    \/ Tick
    \/ /\ \/ HubPluginNext
          \/ \E t \in Tasks : SendExecute(t)
          \/ \E t \in Tasks : SendExecuteFails(t)
          \/ \E t \in Tasks : ResultReturn(t)
          \/ \E t \in Tasks : TimerFire(t)
          \/ \E t \in Tasks : TimeoutRaise(t)
       /\ UNCHANGED <<obsVars, bridgeVars, sideVars, resVars, mwVars>>

DispatchInit == RegInit /\ HubInit /\ ResInit(MwConfigs) /\ MwInit({TRUE})

SpecDispatch == DispatchInit /\ [][DispatchNext]_vars

\* The loop resumes a call whose sleep is over, lets time pass, writes the
\* frame, runs due timers and resumes the call whose future is done.
DispatchFairness ==
    /\ WF_vars(DispatchWake(1))
    /\ WF_vars(Tick)
    /\ \A t \in Tasks :
           /\ WF_vars(SendExecute(t) /\ UNCHANGED <<obsVars, bridgeVars, sideVars, resVars, mwVars>>)
           /\ WF_vars(SendExecuteFails(t) /\ UNCHANGED <<obsVars, bridgeVars, sideVars, resVars, mwVars>>)
           /\ WF_vars(ResultReturn(t) /\ UNCHANGED <<obsVars, bridgeVars, sideVars, resVars, mwVars>>)
           /\ WF_vars(TimerFire(t) /\ UNCHANGED <<obsVars, bridgeVars, sideVars, resVars, mwVars>>)
           /\ WF_vars(TimeoutRaise(t) /\ UNCHANGED <<obsVars, bridgeVars, sideVars, resVars, mwVars>>)

FairSpecDispatch == SpecDispatch /\ DispatchFairness

\* --------------------------------------------------------------- C11
\* Call c polls the registry in this step.
PollsRegistry(c) == res[c].pc \in {"idle", "sleeping"} /\ res'[c] /= res[c]

\* C11: a send_command_for_instance call that polls while a session of its
\* target is registered goes on, in that step, to send_command on the
\* channel bound to that session: it fails neither with "no plugin
\* connected" nor with "not connected".  No such call ever fails with "not
\* connected"; one that returns a result returns the result of its own
\* command, whose frame went out on that channel; and every call ends.
C11_SentOnNewSession ==
    /\ [][\A c \in Calls :
             (PollsRegistry(c) /\ Matching(res'[c].target_hash) /= {})
                 => /\ res'[c].pc = "done" /\ res'[c].error = "-"
                    /\ res'[c].session_id \in Matching(res'[c].target_hash)
                    /\ res'[c].session_id \in DOMAIN connections
                    /\ task'[c].pc = "send"
                    /\ task'[c].session_id = res'[c].session_id
                    /\ task'[c].websocket = connections[res'[c].session_id]
                    /\ task'[c].command_id \in pending']_vars
    /\ [](\A c \in Calls :
             /\ task[c].outcome /= "not_connected"
             /\ task[c].outcome = "result"
                    => /\ task[c].result = ResultPayload(task[c].command_id)
                       /\ ExecuteSent(c)
                       /\ task[c].session_id = res[c].session_id)
    /\ \A c \in Calls :
           (res[c].pc /= "idle")
               ~> (res[c].pc = "done" /\ (res[c].error /= "-" \/ task[c].pc = "done"))

\* A command for a hash that had no session when it was issued waited, the
\* plugin registered, and the command returned its result over the channel
\* of the new session, which is still open.
C11_Witness ==
    \E c \in Calls :
        /\ Truthy(res[c].target_hash)
        /\ res[c].sleeps >= 1
        /\ res[c].pc = "done" /\ res[c].error = "-"
        /\ task[c].pc = "done" /\ task[c].outcome = "result"
        /\ task[c].result = ResultPayload(task[c].command_id)
        /\ task[c].session_id \in Matching(res[c].target_hash)
        /\ connections[task[c].session_id] = task[c].websocket
        /\ ws[task[c].websocket] = "open"

\* --------------------------------------------------------------- C24
SessionsOf(h) == {s \in DOMAIN sessions : sessions[s].project_hash = h}

\* C24: in every reachable registry state each project hash belongs to at
\* most one session record, and every hash of the hash index maps to a
\* session id that is in the session map with that project hash.
C24_HashHasOneSession ==
    /\ \A h \in Hashes : Cardinality(SessionsOf(h)) <= 1
    /\ \A h \in DOMAIN hash_to_session :
           /\ hash_to_session[h] \in DOMAIN sessions
           /\ sessions[hash_to_session[h]].project_hash = h

\* A hash was registered twice and a session was unregistered; the hash
\* still has its one session.
C24_Witness ==
    \E h \in Hashes :
        /\ Cardinality(RegsFor(h)) >= 2
        /\ unregistered /= {}
        /\ h \in DOMAIN hash_to_session
        /\ SessionsOf(h) = {hash_to_session[h]}

\* --------------------------------------------------------------- C30
\* The hash part of a reference: what follows its last "@", or all of it.
HashPart(unity_instance) ==
    IF \E i \in 1..Len(unity_instance) : unity_instance[i] = At
    THEN Suffix(unity_instance)
    ELSE unity_instance

\* Call c returns a session id in this step.
ReturnsSession(c) ==
    res[c].pc /= "done" /\ res'[c].pc = "done" /\ res'[c].error = "-"

\* C30: a resolution called with a non-empty reference returns only the id
\* of a session whose project hash is the hash part of the reference;
\* the single registered session is auto-selected only for a call that was
\* given no reference.
C30_Original ==
    [][\A c \in Calls :
          (ReturnsSession(c) /\ Truthy(res'[c].unity_instance))
              => /\ res'[c].session_id \in DOMAIN sessions
                 /\ sessions[res'[c].session_id].project_hash
                        = HashPart(res'[c].unity_instance)]_vars

\* ---------------------------------------------------- StdioPortRegistry
\* The ids discovery can find.
InstanceIds == {n \o <<At>> \o h : n \in Names, h \in Hashes}

\* ttl = getattr(config, "port_registry_ttl", 5.0)
Ttl == port_registry_ttl_default

\* get_instances answers from the cache.
CacheHitOnlySameSecond(force_refresh) ==
    ~force_refresh /\ instances /= {} /\ wall = last_refresh

CacheHit(force_refresh) ==
    ~force_refresh /\ instances /= {} /\ (wall - last_refresh) < Ttl

\* get_instances, with _refresh_locked when the cache is not used.  cached
\* and age (history) are the cache and its age when the call was made.
get_instances(force_refresh) ==
    /\ IF CacheHit(force_refresh)
       THEN /\ last_get' = [called |-> TRUE, force_refresh |-> force_refresh,
                            scanned |-> FALSE, returned |-> instances,
                            cached |-> instances, age |-> wall - last_refresh]
            /\ UNCHANGED <<instances, last_refresh>>
       ELSE /\ instances' = discoverable
            /\ last_refresh' = wall
            /\ last_get' = [called |-> TRUE, force_refresh |-> force_refresh,
                            scanned |-> TRUE, returned |-> discoverable,
                            cached |-> instances, age |-> wall - last_refresh]
    /\ UNCHANGED <<wall, discoverable>>

\* clear()
StdioClear ==
    /\ instances' = {}
    /\ last_refresh' = 0
    /\ UNCHANGED <<wall, discoverable, last_get>>

\* A second passes.
WallTick ==
    /\ wall < MaxWall
    /\ wall' = wall + 1
    /\ UNCHANGED <<instances, last_refresh, discoverable, last_get>>

\* An editor starts or quits.
EditorsChange ==
    /\ \E ids \in SUBSET InstanceIds : ids /= discoverable /\ discoverable' = ids
    /\ UNCHANGED <<instances, last_refresh, wall, last_get>>

StdioNext ==
    /\ \/ \E force_refresh \in BOOLEAN : get_instances(force_refresh)
       \/ StdioClear
       \/ WallTick
       \/ EditorsChange
    /\ UNCHANGED <<regVars, ws, handler, connections, pending, future, nextCmd,
                   task, sent, obsVars, bridgeVars, received, last_op, snapVars, lockVars,
                   resVars, mwVars>>

SpecStdio == Init /\ [][StdioNext]_vars

\* --------------------------------------------------------------- C23
\* The last get_instances call was made without force_refresh within the
\* TTL of the last refresh.
WithinTtl == last_get.called /\ ~last_get.force_refresh /\ last_get.age < Ttl

\* C23 as stated: get_instances without force_refresh, called within the
\* TTL of the last refresh, returns the cached instances and makes no
\* discovery scan, whatever the last scan found.
C23_Original ==
    WithinTtl => (~last_get.scanned /\ last_get.returned = last_get.cached)

\* C23: get_instances without force_refresh, called within the TTL of the
\* last refresh while the cache holds at least one instance, returns the
\* cached instances and makes no discovery scan; with an empty cache it
\* scans, also within the TTL.
C23_CachedUnlessEmpty ==
    /\ (WithinTtl /\ last_get.cached /= {})
           => (~last_get.scanned /\ last_get.returned = last_get.cached)
    /\ (last_get.called /\ last_get.cached = {}) => last_get.scanned

\* A call three seconds after the refresh was answered from the cache
\* although another editor had started meanwhile.
C23_Witness ==
    /\ WithinTtl
    /\ last_get.age >= 3
    /\ last_get.cached /= {}
    /\ last_get.cached /= discoverable
    /\ ~last_get.scanned
    /\ last_get.returned = last_get.cached

\* --------------------------------------------------------------- C21
\* The disconnect handling of WebSocket w runs in this step.
Disconnects(w) == ws[w] = "closed" /\ ws'[w] = "gone"

\* Session id sid is known neither to the channel map nor to the registry.
Forgotten(sid, conns, ss, h2s) ==
    /\ MapGet(conns, sid, NoWs) = NoWs
    /\ sid \notin DOMAIN ss
    /\ \A h \in DOMAIN h2s : h2s[h] /= sid

\* Session id sid was handed out and its registration is not in progress.
Settled(sid) ==
    sid < nextSid /\ \A w \in WebSockets : handler[w].session_id /= sid

\* C21: when a channel closes, the session id the disconnect handling finds
\* bound to that channel is removed from the channel map and unregistered
\* from the registry, and stays so: list_sessions does not contain it,
\* get_session_id_by_hash does not return it, and a send_command for it
\* fails with "not connected".
C21_FoundSessionForgotten ==
    /\ [][\A w \in WebSockets :
             (Disconnects(w) /\ BoundTo(w) /= {})
                 => Forgotten(SetMin(BoundTo(w)), connections', sessions',
                              hash_to_session')]_vars
    /\ [][\A sid \in Sids :
             (Settled(sid) /\ Forgotten(sid, connections, sessions, hash_to_session))
                 => Forgotten(sid, connections', sessions', hash_to_session')]_vars
    /\ [][\A t \in Tasks :
             (task[t].pc = "idle" /\ task'[t].pc /= "idle"
              /\ Forgotten(task'[t].session_id, connections, sessions, hash_to_session))
                 => (task'[t].pc = "done" /\ task'[t].outcome = "not_connected")]_vars

\* A command went out over the channel of a session; the channel closed,
\* its disconnect handling ran, and the next command for that session
\* failed with "not connected".
C21_Witness ==
    \E t \in Tasks, u \in Tasks :
        /\ task[t].websocket /= NoWs
        /\ ws[task[t].websocket] = "gone"
        /\ Forgotten(task[t].session_id, connections, sessions, hash_to_session)
        /\ task[u].session_id = task[t].session_id
        /\ task[u].outcome = "not_connected"

\* --------------------------------------------------------------- C28
\* C28: once a channel has closed and its disconnect handling is over, no
\* session registered over it is left in the channel map or in the
\* registry, however many register frames came over the channel.
C28_Original ==
    \A w \in WebSockets :
        ws[w] = "gone"
            => /\ BoundTo(w) = {}
               /\ \A sid \in DOMAIN sessions :
                      sid \in DOMAIN connections /\ connections[sid] /= w

\* ------------------------------------- command results, by their channel
\* on_receive of a command_result frame that carries id c, on WebSocket w.
ReceiveCommandResult(w, c) ==
    /\ HandleCommandResult(w, c)
    /\ received' = [ws |-> w, id |-> c]

\* One command, and the plugins on every WebSocket.
ChannelsNext ==
    \/ /\ \/ \E w \in WebSockets : on_connect(w)
          \/ \E w \in WebSockets : PeerClose(w)
          \/ \E w \in WebSockets, name \in Names, hash \in Hashes \cup {<<>>} :
                 HandleRegisterBegin(w, name, hash)
          \/ \E w \in WebSockets : HandleRegisterCommit(w)
          \/ \E w \in WebSockets : HandleRegisterSendFails(w)
          \/ \E w \in WebSockets : on_disconnect(w)
          \/ \E sid \in Sids : SendCommandCall(1, sid)
          \/ SendExecute(1)
          \/ SendExecuteFails(1)
          \/ ResultReturn(1)
          \/ TimerFire(1)
          \/ TimeoutRaise(1)
       /\ UNCHANGED <<obsVars, bridgeVars, sideVars, resVars, mwVars>>
    \/ /\ \E w \in WebSockets, c \in CmdIds : ReceiveCommandResult(w, c)
       /\ UNCHANGED <<obsVars, bridgeVars, legacyVars, last_op, snapVars, lockVars,
                   resVars, mwVars>>

SpecChannels == Init /\ [][ChannelsNext]_vars

\* --------------------------------------------------------------- C27
\* The future of command c is given its result in this step.
Resolved(c) == future[c].st = "pending" /\ future'[c].st = "result"

\* C27: a pending command is resolved only by a command_result frame
\* received on the WebSocket its execute frame was sent over; a frame that
\* carries its id but comes over another plugin's WebSocket does not
\* complete it.
C27_Original ==
    [][\A c \in CmdIds :
          Resolved(c)
              => /\ received'.id = c
                 /\ \A t \in Tasks :
                        task[t].command_id = c => received'.ws = task[t].websocket]_vars

\* ------------------------------------ selecting while a call resolves
\* One caller that issues commands and selects either project, while
\* sessions come and go and the resolver has a window to wait out.
RebindToolArgs ==
    {<<"command", None>>,
     <<"set_active_instance", <<"Proj", At, "abcd1234">>>>,
     <<"set_active_instance", <<"Proj", At, "efgh5678">>>>}

RebindContext == [session_id |-> <<"mcp-session-1">>, client_id |-> None]

RebindNext ==
    \/ \E c \in Calls, ta \in RebindToolArgs : on_call_tool(c, RebindContext, ta[1], ta[2])
    \/ \E c \in Calls : MiddlewareWake(c)
    \/ \E c \in Calls : ToolSend(c)
    \/ \E c \in Calls : ToolSendWake(c)
    \/ \E c \in Calls : ToolSetActiveInstance(c)
    \/ Tick
    \/ SessionAppears
    \/ SessionDisappears

RebindInit ==
    /\ RegInit /\ HubInit /\ MwInit({TRUE})
    /\ ResInit({[reload_max_retries |-> 2, reload_retry_ms |-> MinSleepMs]})

SpecRebind == RebindInit /\ [][RebindNext]_vars

\* --------------------------------------------------------------- C29
\* The resolution the middleware made for tool call c fails in this step.
ResolutionFails(c) == call[c].pc = "resolving" /\ call'[c].mw_error /= "-"

\* C29: when the resolution of a waiting tool call fails after its caller
\* has set another active instance, the clear leaves the new binding in
\* place.
C29_Original ==
    [][\A c \in Calls :
          (ResolutionFails(c)
           /\ Truthy(get_active_instance(call[c].ctx))
           /\ get_active_instance(call[c].ctx) /= call[c].active_instance)
              => MapGet(active_by_key', SessionKey(call[c].ctx), None)
                     = get_active_instance(call[c].ctx)]_vars

\* ------------------------------------------- the middleware's bindings
\* Callers with a session id, with a client id only, with both, and with
\* neither (absent or empty).
KeyContexts ==
    [session_id : {None, <<>>, <<"mcp-session-1">>, <<"mcp-session-2">>},
     client_id : {None, <<>>, <<"client-1">>}]

SetActive(ctx, instance_id) ==
    /\ active_by_key' = set_active_instance(active_by_key, ctx, instance_id)
    /\ last_op' = [op |-> "set", ctx |-> ctx, instance_id |-> instance_id]

ClearActive(ctx) ==
    /\ active_by_key' = clear_active_instance(active_by_key, ctx)
    /\ last_op' = [op |-> "clear", ctx |-> ctx, instance_id |-> None]

KeysNext ==
    /\ \/ \E ctx \in KeyContexts, instance_id \in InstanceIds : SetActive(ctx, instance_id)
       \/ \E ctx \in KeyContexts : ClearActive(ctx)
    /\ UNCHANGED <<regVars, ws, handler, connections, pending, future, nextCmd,
                   task, sent, obsVars, bridgeVars, legacyVars, received, snapVars,
                   lockVars, resVars, hub_configured, call, ncalls>>

SpecKeys == Init /\ [][KeysNext]_vars

\* --------------------------------------------------------------- C22
HasNeither(ctx) == ~Truthy(ctx.session_id) /\ ~Truthy(ctx.client_id)

Keys == {SessionKey(ctx) : ctx \in KeyContexts}

Tools == {"manage_scene"}

\* register(): a new PluginSession object, registered_at = connected_at = now.
SnapRegister ==
    \E name \in Names, hash \in Hashes :
        /\ nextSid <= MaxSid
        /\ register(nextSid, name, hash)
        /\ nextSid' = nextSid + 1
        /\ objects' = MapPut(objects, nextSid, [connected_at |-> utc, tools |-> {}])
        /\ UNCHANGED <<utc, held>>

SnapUnregister ==
    \E sid \in DOMAIN sessions :
        /\ unregister(sid)
        /\ UNCHANGED <<nextSid, objects, utc, held>>

\* touch(): a heartbeat came, later than anything before it.
touch(session_id) ==
    /\ utc < MaxUtc
    /\ utc' = utc + 1
    /\ objects' = IF session_id \in DOMAIN sessions
                  THEN [objects EXCEPT ![session_id].connected_at = utc + 1]
                  ELSE objects
    /\ UNCHANGED <<sessions, hash_to_session, nextSid, held>>

\* register_tools_for_session(): session.tools.clear(), then the new tools.
register_tools_for_session(session_id, tools) ==
    /\ objects' = IF session_id \in DOMAIN sessions
                  THEN [objects EXCEPT ![session_id].tools = tools]
                  ELSE objects
    /\ objects' /= objects
    /\ UNCHANGED <<sessions, hash_to_session, nextSid, utc, held>>

\* get_session(): self._sessions.get(session_id), the registry's own object.
get_session(session_id) ==
    /\ held' = IF session_id \in DOMAIN sessions
               THEN [lookup |-> "get_session", refs |-> {session_id},
                     seen |-> MapPut(EmptyMap, session_id, objects[session_id])]
               ELSE [lookup |-> "get_session", refs |-> {}, seen |-> EmptyMap]
    /\ held' /= held
    /\ UNCHANGED <<sessions, hash_to_session, nextSid, objects, utc>>

\* list_sessions(): dict(self._sessions), a new dict of the same objects.
ListSessions ==
    /\ held' = [lookup |-> "list_sessions", refs |-> DOMAIN list_sessions,
                seen |-> [sid \in DOMAIN list_sessions |-> objects[sid]]]
    /\ held' /= held
    /\ UNCHANGED <<sessions, hash_to_session, nextSid, objects, utc>>

SnapNext ==
    /\ \/ SnapRegister
       \/ SnapUnregister
       \/ \E sid \in Sids : touch(sid)
       \/ \E sid \in Sids, tools \in SUBSET Tools : register_tools_for_session(sid, tools)
       \/ \E sid \in Sids : get_session(sid)
       \/ ListSessions
    /\ UNCHANGED <<regLog, unregistered, ws, handler, connections, pending, future,
                   nextCmd, task, sent, obsVars, bridgeVars, legacyVars, received,
                   last_op, lockVars, resVars, mwVars>>

SpecSnap == Init /\ [][SnapNext]_vars

\* --------------------------------------------------------------- C25
\* C25: what a caller got from get_session or list_sessions is a snapshot:
\* the sessions it holds still read as they did at the lookup, whatever
\* touch, register_tools_for_session, register and unregister calls were
\* made since.
C25_Original ==
    \A sid \in held.refs : objects[sid] = held.seen[sid]

\* ------------------------------------------------------------ the locks
Acq(l) == <<"acquire", l>>
Rel(l) == <<"release", l>>

\* The lock operations of the registry's methods, each "async with self._lock".
RegistryCall == <<Acq("registry"), Rel("registry")>>

\* get_active_instance, set_active_instance, clear_active_instance
MiddlewareCall == <<Acq("middleware"), Rel("middleware")>>

\* An "async with lock" of the hub with no await inside.
HubSection == <<Acq("hub"), Rel("hub")>>

\* _try_once with a target (get_session_id_by_hash, then list_sessions),
\* followed by one more poll.
ResolveLocks == RegistryCall \o RegistryCall \o RegistryCall \o RegistryCall

\* on_disconnect: unregister is awaited inside "async with lock".
OnDisconnectLocks ==
    <<Acq("hub"), Acq("registry"), Rel("registry"), Rel("hub")>>

\* _handle_register: registry.register, then the binding under the hub lock.
HandleRegisterLocksNested ==
    <<Acq("registry"), Acq("hub"), Rel("hub"), Rel("registry")>>

HandleRegisterLocks == RegistryCall \o HubSection

\* The lock operations of each operation, in program order.
LocksOf(op) ==
    CASE op = "on_call_tool" -> MiddlewareCall \o ResolveLocks \o MiddlewareCall
      [] op = "set_active_instance" -> RegistryCall \o MiddlewareCall
      [] op = "_handle_register" -> HandleRegisterLocks
      [] op = "_handle_register_tools" -> HubSection \o RegistryCall
      [] op = "_handle_pong" -> RegistryCall
      [] op = "_handle_command_result" -> HubSection
      [] op = "on_disconnect" -> OnDisconnectLocks
      [] op = "send_command_for_instance" ->
             ResolveLocks \o HubSection \o HubSection \o HubSection
      [] OTHER -> <<>>

Operations ==
    {"on_call_tool", "set_active_instance", "_handle_register",
     "_handle_register_tools", "_handle_pong", "_handle_command_result",
     "on_disconnect", "send_command_for_instance"}

\* The lock operation task p is at.
AtLock(p) == LocksOf(proc[p].op)[proc[p].pc]

Running(p) == proc[p].op /= "-"

Holds(p, l) == lock_owner[l] = p

Acquiring(p, l) == Running(p) /\ AtLock(p) = Acq(l)

\* An asyncio.Lock is not reentrant; the middleware's RLock is, but no
\* task takes it twice.
Blocked(p) == \E l \in Locks : Acquiring(p, l) /\ lock_owner[l] /= NoProc

Advance(p) ==
    IF proc[p].pc = Len(LocksOf(proc[p].op)) THEN IdleProc
    ELSE [proc[p] EXCEPT !.pc = @ + 1]

StartOperation(p, op) ==
    /\ ~Running(p)
    /\ proc' = [proc EXCEPT ![p] = [op |-> op, pc |-> 1]]
    /\ UNCHANGED lock_owner

AcquireLock(p) ==
    /\ Running(p)
    /\ \E l \in Locks :
           /\ AtLock(p) = Acq(l)
           /\ lock_owner[l] = NoProc
           /\ lock_owner' = [lock_owner EXCEPT ![l] = p]
    /\ proc' = [proc EXCEPT ![p] = Advance(p)]

ReleaseLock(p) ==
    /\ Running(p)
    /\ \E l \in Locks :
           /\ AtLock(p) = Rel(l)
           /\ lock_owner' = [lock_owner EXCEPT ![l] = NoProc]
    /\ proc' = [proc EXCEPT ![p] = Advance(p)]

LocksNext ==
    /\ \/ \E p \in LockTasks, op \in Operations : StartOperation(p, op)
       \/ \E p \in LockTasks : AcquireLock(p)
       \/ \E p \in LockTasks : ReleaseLock(p)
    /\ UNCHANGED <<regVars, ws, handler, connections, pending, future, nextCmd,
                   task, sent, obsVars, bridgeVars, legacyVars, received, last_op,
                   snapVars, resVars, mwVars>>

SpecLocks == Init /\ [][LocksNext]_vars

\* --------------------------------------------------------------- C26
\* Some tasks wait for each other: each is at a lock that another of them
\* holds.
CyclicWait ==
    \E S \in SUBSET LockTasks :
        /\ S /= {}
        /\ \A p \in S : \E l \in Locks, q \in S :
               Acquiring(p, l) /\ q /= p /\ Holds(q, l)

\* C26: no task holds the middleware's lock while it acquires or holds the
\* hub lock or the registry lock; no task holds the registry lock while it
\* acquires the hub lock; and no cyclic wait among the tasks is reachable.
C26_NoOrderingHazard ==
    /\ \A p \in LockTasks :
           Holds(p, "middleware")
               => /\ ~Holds(p, "hub") /\ ~Holds(p, "registry")
                  /\ ~Acquiring(p, "hub") /\ ~Acquiring(p, "registry")
    /\ \A p \in LockTasks : Holds(p, "registry") => ~Acquiring(p, "hub")
    /\ ~CyclicWait

\* A disconnect holds the hub lock and the registry lock together while a
\* tool call waits for the registry lock.
C26_Witness ==
    \E p \in LockTasks, q \in LockTasks :
        /\ Holds(p, "hub") /\ Holds(p, "registry")
        /\ proc[q].op = "on_call_tool"
        /\ Blocked(q)

====
